---- MODULE Spec2Model ----
(***************************************************************************)
(* Type conversion engine (src/lib/converter/types.ts) and signature       *)
(* factory (src/lib/converter/factories/signature.ts) of typedoc.          *)
(*                                                                         *)
(* The converter is a set of mutually recursive synchronous functions.     *)
(* The model keeps the JavaScript call stack explicit: a frame is one      *)
(* running converter (or factory) call, `todo` the nested calls it still   *)
(* has to make, in the order the code makes them, `done` their results.    *)
(* The TypeScript checker ("the Oracle") is modelled by a fixed universe   *)
(* of syntax nodes and resolved types, grouped into analysed programs.     *)
(***************************************************************************)
EXTENDS Integers, Sequences, FiniteSets, TLC

VARIABLES
    converters,       \* types.ts:44   module-level Map<SyntaxKind, TypeConverter>
    seenTypeSymbols,  \* types.ts:83   module-level Set<ts.Symbol>
    stack,            \* the JavaScript call stack of converter/factory calls
    status,           \* "idle" | "running" | "aborted" (an exception reached the driver)
    reflections,      \* reflections created in the current pass (index = id)
    registered,       \* calls of context.registerReflection, in order
    events,           \* calls of context.trigger, in order
    log,              \* logger calls made since the current outermost call began
    history,          \* completed outermost calls of this process, in order
    program,          \* the analysed program (fixed per behaviour)
    pass,             \* number of the current conversion pass (Context)
    guardAtCall       \* seenTypeSymbols when the current outermost call began

vars == <<converters, seenTypeSymbols, stack, status, reflections, registered,
          events, log, history, program, pass, guardAtCall>>

\* Bounds of the model.
MaxCalls == 3
MaxDepth == 5
MaxPasses == 2

(***************************************************************************)
(* Generic helpers.                                                        *)
(***************************************************************************)
SeqOf(F(_), s) == [i \in 1..Len(s) |-> F(s[i])]

RECURSIVE Concat(_)
Concat(ss) == IF ss = <<>> THEN <<>> ELSE Head(ss) \o Concat(Tail(ss))

Range(s) == {s[i] : i \in 1..Len(s)}

NoSymbol == "undefined"
NoNode == <<"undefined">>
NoType == <<"undefined">>

(***************************************************************************)
(* The Oracle: syntax nodes.  A node is a tuple whose first element is its *)
(* ts.SyntaxKind; the other elements are the fields the converters read.   *)
(*   <<K>>                                  keyword K, ThisType            *)
(*   <<"ArrayType", elementType>>                                          *)
(*   <<"UnionType", types>>   <<"IntersectionType", types>>                *)
(*   <<"TupleType", elements>>                                             *)
(*   <<"NamedTupleMember", name, questionToken, type>>                     *)
(*   <<"OptionalType", type>>               no converter handles it        *)
(*   <<"LiteralType", literal>>                                            *)
(*   <<"MappedType", readonlyToken, name, constraint, questionToken,       *)
(*                   type, nameType>>                                      *)
(*   <<"TypeReference", name, symbol, hasTypeArguments, typeArguments>>    *)
(*   <<"TypeLiteral", obj>> <<"FunctionType", obj>>                        *)
(*   <<"ConstructorType", obj>>             no converter handles it        *)
(*   <<"TypeQuery", name, symbol>>                                         *)
(*   <<"TypeOperator", operator, type>>                                    *)
(*   <<"TypePredicate", parameterName, assertsModifier, type>>             *)
(*   <<"ParenthesizedType", type>>                                         *)
(*   <<"ConditionalType", check, extends, true, false>>                    *)
(*   <<"IndexedAccessType", object, index>>                                *)
(*   <<"InferType", name>>                                                 *)
(*   <<"TemplateLiteralType", head, spans>>  span = <<type, text>>         *)
(*   <<"ExpressionWithTypeArguments", name, symbol, typeArguments, type>>  *)
(* A literal (node.literal) is <<kind, text>>:                             *)
(*   <<"StringLiteral", s>> <<"NumericLiteral", n>> <<"BigIntLiteral", n>> *)
(*   <<"TrueKeyword">> <<"FalseKeyword">> <<"NullKeyword">>                *)
(*   <<"PrefixUnaryExpression", operand>>    unary minus                   *)
(***************************************************************************)
kindOf(node) == node[1]

\* node.getText(): the source text of a node, kept abstract.
getText(node) == <<"text", node>>

(***************************************************************************)
(* The Oracle: resolved types (ts.Type).  First element: the shape.        *)
(*   <<"intrinsic", K>>          projected to the keyword node <<K>>       *)
(*   <<"literal", value>>        value: <<"string", s>> <<"number", n>>    *)
(*                               <<"boolean", b>> <<"null">>               *)
(*                               <<"bigint", negative, base10Value>>       *)
(*   <<"arrayT", typeArguments>>            symbol Array                   *)
(*   <<"unionT", types>>  <<"intersectionT", types>>                       *)
(*   <<"tupleT", elements>>  element = [named, name, optional, type, decl] *)
(*   <<"mappedT", readonlyToken, questionToken, name, constraint,          *)
(*                templateType, nameType>>                                 *)
(*   <<"objT", obj>>             anonymous object / function type          *)
(*   <<"refT", name, symbol, aliasSymbol, hasAliasArgs, aliasArgs>>        *)
(*   <<"queryT", symbol>>        typeof C                                  *)
(*   <<"keyofT", type>>  <<"readonlyT", typeArguments, isTuple>>           *)
(*   <<"readonlyNonObjectT">>  <<"uniqueT">>                               *)
(*   <<"templateT", texts, types>>                                         *)
(*   <<"thisT">>  <<"conditionalT", c, e, t, f>> <<"indexedT", o, i>>      *)
(*   <<"inferT", name>>  <<"predicateT">>                                  *)
(***************************************************************************)

(***************************************************************************)
(* The Oracle: resolved call signatures (ts.Signature) and the symbols and *)
(* declarations of their parameters.                                       *)
(***************************************************************************)
\* A parameter symbol with its valueDeclaration:
\*   type       checker.getTypeOfSymbolAtLocation(param, declaration)
\*   isParameter  ts.isParameter(param.valueDeclaration)
\*   initializer  the text of param.valueDeclaration.initializer, if any
ParamSymbol(name, type, questionToken, dotDotDotToken) ==
    [name |-> name, type |-> type, questionToken |-> questionToken,
     dotDotDotToken |-> dotDotDotToken, isParameter |-> TRUE,
     initializer |-> "undefined"]

\* A ts.ParameterDeclaration node: name, type node, tokens, initializer text
ParamNode(name, type, questionToken, dotDotDotToken, initializer) ==
    [name |-> name, type |-> type, questionToken |-> questionToken,
     dotDotDotToken |-> dotDotDotToken, initializer |-> initializer]

\* A ts.Signature:
\*   declaration  <<kind, parent>> of signature.getDeclaration(), or NoNode
\*   declParameters  declaration.parameters
\*   predicate    checker.getTypePredicateOfSignature: <<kind, name, type>> or NoNode
Signature(typeParameters, hasTypeParameters, parameters, declaration, declParameters, predicate, returnType) ==
    [typeParameters |-> typeParameters, hasTypeParameters |-> hasTypeParameters,
     parameters |-> parameters, declaration |-> declaration,
     declParameters |-> declParameters, predicate |-> predicate,
     returnType |-> returnType]

TString == <<"intrinsic", "StringKeyword">>
TNumber == <<"intrinsic", "NumberKeyword">>
TUndefined == <<"intrinsic", "UndefinedKeyword">>
TVoid == <<"intrinsic", "VoidKeyword">>
NString == <<"StringKeyword">>
NNumber == <<"NumberKeyword">>
NUndefined == <<"UndefinedKeyword">>

\* (x?: string) => void
SigFn ==
    Signature(<<>>, FALSE,
              << ParamSymbol("x", <<"unionT", <<TString, TUndefined>> >>, TRUE, FALSE) >>,
              <<"FunctionType", "Fn">>,
              << ParamNode("x", NString, TRUE, FALSE, "undefined") >>,
              NoNode, TVoid)

\* (): void
SigVoid ==
    Signature(<<>>, FALSE, <<>>, <<"CallSignature", "Hybrid">>, <<>>, NoNode, TVoid)

\* The anonymous object/function types of the analysed programs, by name:
\* their symbol, the node kind typeToTypeNode projects them to, their
\* properties (checker.getPropertiesOfType) and call signatures
\* (type.getCallSignatures).  A property is <<name, optional, typeOrNode>>.
Obj(name) ==
    CASE name = "Rec" ->      \* const Rec = { self: Rec }
           [symbol |-> "Rec", kind |-> "TypeLiteral",
            props |-> << <<"self", FALSE, <<"type", <<"objT", "Rec">>>>>> >>,
            sigs |-> <<>>]
      [] name = "Rec2" ->     \* two properties referring back to Rec2
           [symbol |-> "Rec2", kind |-> "TypeLiteral",
            props |-> << <<"left", FALSE, <<"type", <<"objT", "Rec2">>>>>>,
                         <<"right", FALSE, <<"type", <<"objT", "Rec2">>>>>> >>,
            sigs |-> <<>>]
      [] name = "A" ->        \* A = { b: B }, B = { a: A }: one indirection
           [symbol |-> "A", kind |-> "TypeLiteral",
            props |-> << <<"b", FALSE, <<"type", <<"objT", "B">>>>>> >>,
            sigs |-> <<>>]
      [] name = "B" ->
           [symbol |-> "B", kind |-> "TypeLiteral",
            props |-> << <<"a", FALSE, <<"type", <<"objT", "A">>>>>> >>,
            sigs |-> <<>>]
      [] name = "Twin" ->     \* p is an alias reference whose getSymbol() is Twin
           [symbol |-> "Twin", kind |-> "TypeLiteral",
            props |-> << <<"p", FALSE, <<"type", <<"refT", "TwinAlias", "Twin", "TwinAlias", FALSE, <<>>>>>>>>,
                         <<"q", FALSE, <<"type", <<"objT", "Twin">>>>>> >>,
            sigs |-> <<>>]
      [] name = "Ctor" ->     \* new () => string: projected to ConstructorType
           [symbol |-> "Ctor", kind |-> "ConstructorType",
            props |-> <<>>, sigs |-> <<>>]
      [] name = "Plain" ->    \* { a: 1; b: 2 }
           [symbol |-> "Plain", kind |-> "TypeLiteral",
            props |-> << <<"a", FALSE, <<"type", <<"literal", <<"number", 1>>>>>>>>,
                         <<"b", FALSE, <<"type", <<"literal", <<"number", 2>>>>>>>> >>,
            sigs |-> <<>>]
      [] name = "Node" ->     \* interface Node { next?: Node } written as a literal
           [symbol |-> "Node", kind |-> "TypeLiteral",
            props |-> << <<"next", TRUE, <<"node", <<"TypeReference", "Node", "Node", FALSE, <<>>>>>>>> >>,
            sigs |-> <<>>]
      [] name = "Fn" ->       \* (x?: string) => void
           [symbol |-> "Fn", kind |-> "FunctionType",
            props |-> <<>>, sigs |-> <<SigFn>>]
      [] name = "Hybrid" ->   \* { a: 1; b: string; (x?: string): void; (): void }
           [symbol |-> "Hybrid", kind |-> "TypeLiteral",
            props |-> << <<"a", FALSE, <<"type", <<"literal", <<"number", 1>>>>>>>>,
                         <<"b", TRUE, <<"type", TString>>>> >>,
            sigs |-> <<SigFn, SigVoid>>]
      [] OTHER ->             \* "NoSym": an object type without a symbol
           [symbol |-> NoSymbol, kind |-> "TypeLiteral",
            props |-> <<>>, sigs |-> <<>>]

\* type.getSymbol()
getSymbol(type) ==
    CASE type[1] = "arrayT" -> "Array"
      [] type[1] = "readonlyT" -> IF type[3] THEN NoSymbol ELSE "ReadonlyArray"
      [] type[1] = "objT" -> Obj(type[2]).symbol
      [] type[1] = "refT" -> type[3]
      [] type[1] = "mappedT" -> "__mapped"
      [] type[1] = "queryT" -> type[2]
      [] type[1] = "inferT" -> type[2]
      [] OTHER -> NoSymbol

\* The literal expression typeToTypeNode builds for a literal type's value.
literalOf(value) ==
    CASE value[1] = "string" -> <<"StringLiteral", value[2]>>
      [] value[1] = "number" ->
           IF value[2] < 0
           THEN <<"PrefixUnaryExpression", <<"NumericLiteral", -value[2]>>>>
           ELSE <<"NumericLiteral", value[2]>>
      [] value[1] = "boolean" ->
           IF value[2] THEN <<"TrueKeyword">> ELSE <<"FalseKeyword">>
      [] value[1] = "bigint" ->
           IF value[2]
           THEN <<"PrefixUnaryExpression", <<"BigIntLiteral", value[3]>>>>
           ELSE <<"BigIntLiteral", value[3]>>
      [] OTHER -> <<"NullKeyword">>

\* context.checker.typeToTypeNode(type, undefined, IgnoreErrors): the
\* representative syntax node of a resolved type.
RECURSIVE typeToTypeNode(_)
typeToTypeNode(type) ==
    LET P(t) == typeToTypeNode(t)
        PO(t) == IF t = NoType THEN NoNode ELSE typeToTypeNode(t)
        Elem(e) == IF e.named
                   THEN <<"NamedTupleMember", e.name, e.optional, P(e.decl)>>
                   ELSE IF e.optional THEN <<"OptionalType", P(e.decl)>>
                        ELSE P(e.decl)
    IN CASE type[1] = "intrinsic" -> <<type[2]>>
         [] type[1] = "literal" -> <<"LiteralType", literalOf(type[2])>>
         [] type[1] = "arrayT" -> <<"ArrayType", P(type[2][1])>>
         [] type[1] = "unionT" -> <<"UnionType", SeqOf(P, type[2])>>
         [] type[1] = "intersectionT" -> <<"IntersectionType", SeqOf(P, type[2])>>
         [] type[1] = "tupleT" -> <<"TupleType", SeqOf(Elem, type[2])>>
         [] type[1] = "mappedT" ->
              <<"MappedType", type[2], type[4], P(type[5]), type[3],
                P(type[6]), PO(type[7])>>
         [] type[1] = "objT" -> <<Obj(type[2]).kind, type[2]>>
         [] type[1] = "refT" ->
              <<"TypeReference", type[2],
                IF type[4] # NoSymbol THEN type[4] ELSE type[3],
                type[5], SeqOf(P, type[6])>>
         [] type[1] = "queryT" -> <<"TypeQuery", type[2], type[2]>>
         [] type[1] = "keyofT" -> <<"TypeOperator", "KeyOfKeyword", P(type[2])>>
         [] type[1] = "readonlyT" ->
              <<"TypeOperator", "ReadonlyKeyword",
                IF type[3] THEN <<"TupleType", SeqOf(P, type[2])>>
                ELSE <<"ArrayType", P(type[2][1])>> >>
         [] type[1] = "readonlyNonObjectT" ->
              <<"TypeOperator", "ReadonlyKeyword", <<"StringKeyword">> >>
         [] type[1] = "uniqueT" ->
              <<"TypeOperator", "UniqueKeyword", <<"SymbolKeyword">> >>
         [] type[1] = "templateT" ->
              <<"TemplateLiteralType", type[2][1],
                [i \in 1..Len(type[3]) |->
                    <<P(type[3][i]),
                      IF i + 1 <= Len(type[2]) THEN type[2][i + 1] ELSE "">>] >>
         [] type[1] = "thisT" -> <<"ThisType">>
         [] type[1] = "conditionalT" ->
              <<"ConditionalType", P(type[2]), P(type[3]), P(type[4]), P(type[5])>>
         [] type[1] = "indexedT" ->
              <<"IndexedAccessType", P(type[2]), P(type[3])>>
         [] type[1] = "inferT" -> <<"InferType", type[2]>>
         [] OTHER -> <<"TypePredicate", "x", FALSE, <<"StringKeyword">> >>

\* context.checker.typeToString(type): the checker prints a type by building
\* its representative node and printing that node.
typeToString(type) == getText(typeToTypeNode(type))

\* context.getTypeAtLocation(node) of a type literal / function type node.
getTypeAtLocation(node) == <<"objT", node[2]>>

(***************************************************************************)
(* The output model (../models): a Type is a tuple headed by its class.    *)
(*   <<"Intrinsic", name>>  <<"Unknown", text>>  <<"Literal", value>>      *)
(*   <<"Array", T>>  <<"Tuple", Ts>>  <<"NamedTupleMember", n, opt, T>>    *)
(*   <<"Union", Ts>>  <<"Intersection", Ts>>                               *)
(*   <<"Conditional", c, e, t, f>>  <<"IndexedAccess", o, i>>              *)
(*   <<"Inferred", name>>  <<"Query", ref>>                                *)
(*   <<"Reference", name, symbol, hasTypeArguments, typeArguments>>        *)
(*   <<"Mapped", name, constraint, template, readonly, optional, nameT>>   *)
(*   <<"Predicate", name, asserts, target>>                                *)
(*   <<"TemplateLiteral", head, parts>>  <<"TypeOperator", T, operator>>   *)
(*   <<"Reflection", id>>          ReflectionType wrapping a declaration   *)
(* Undefined (void 0) sub-types are the tuple <<"undefined">>.             *)
(***************************************************************************)
Intrinsic(name) == <<"Intrinsic", name>>
Unknown(text) == <<"Unknown", text>>
Undefined == <<"undefined">>

\* What a converter call hands back: the Type and the logger calls it made.
Ret(t) == [type |-> t, logs |-> <<>>]

\* Arguments of a nested convertType call.
CTn(node) == <<"convertType", IF node = NoNode THEN <<"undefined">> ELSE <<"node", node>> >>
CTt(type) == <<"convertType", IF type = NoType THEN <<"undefined">> ELSE <<"type", type>> >>

\* context.resolveAliasedSymbol(symbol): the programs alias no symbol.
resolveAliasedSymbol(symbol) == symbol

\* types.ts:716  requestBugReport(context, nodeOrType)
requestBugReport(isNode, nodeOrType) ==
    IF isNode
    THEN [type |-> Unknown(getText(nodeOrType)),
          logs |-> << <<"warn", "Failed to convert type node", getText(nodeOrType)>> >>]
    ELSE [type |-> Unknown(typeToString(nodeOrType)),
          logs |-> << <<"warn", "Failed to convert type", typeToString(nodeOrType)>> >>]

\* types.ts:739  isObjectType(type): typeof type.objectFlags === "number"
isObjectType(type) ==
    type[1] \in {"arrayT", "tupleT", "readonlyT", "objT", "refT", "mappedT"}

kindToModifier_dropsBare(kind) ==
    CASE kind = "PlusToken" -> "+"
      [] kind = "MinusToken" -> "-"
      [] OTHER -> "undefined"

\* types.ts:743  kindToModifier(kind); "none" is an absent token (undefined)
kindToModifier(kind) ==
    CASE kind \in {"ReadonlyKeyword", "QuestionToken", "PlusToken"} -> "+"
      [] kind = "MinusToken" -> "-"
      [] OTHER -> "undefined"

isUndefinedType(t) == t[1] = "Intrinsic" /\ t[2] = "undefined"

removeUndefined_noCollapse(type) ==
    IF type[1] = "Union"
    THEN <<"Union", SelectSeq(type[2], LAMBDA t : ~isUndefinedType(t))>>
    ELSE type

\* types.ts:763  removeUndefined(type)
removeUndefined(type) ==
    IF type[1] = "Union"
    THEN LET types == SelectSeq(type[2], LAMBDA t : ~isUndefinedType(t))
         IN IF Len(types) = 1 THEN types[1] ELSE <<"Union", types>>
    ELSE type

(***************************************************************************)
(* The converter table.                                                    *)
(***************************************************************************)
\* types.ts:48-69  the actors in registration order, each with its `kind` list
actors == <<
    <<"arrayConverter", <<"ArrayType">> >>,
    <<"conditionalConverter", <<"ConditionalType">> >>,
    <<"exprWithTypeArgsConverter", <<"ExpressionWithTypeArguments">> >>,
    <<"indexedAccessConverter", <<"IndexedAccessType">> >>,
    <<"inferredConverter", <<"InferType">> >>,
    <<"intersectionConverter", <<"IntersectionType">> >>,
    <<"keywordConverter", <<"AnyKeyword", "BigIntKeyword", "BooleanKeyword",
        "NeverKeyword", "NumberKeyword", "ObjectKeyword", "StringKeyword",
        "SymbolKeyword", "UndefinedKeyword", "UnknownKeyword", "VoidKeyword">> >>,
    <<"parensConverter", <<"ParenthesizedType">> >>,
    <<"predicateConverter", <<"TypePredicate">> >>,
    <<"queryConverter", <<"TypeQuery">> >>,
    <<"typeLiteralConverter", <<"TypeLiteral", "FunctionType">> >>,
    <<"referenceConverter", <<"TypeReference">> >>,
    <<"namedTupleMemberConverter", <<"NamedTupleMember">> >>,
    <<"mappedConverter", <<"MappedType">> >>,
    <<"literalTypeConverter", <<"LiteralType">> >>,
    <<"templateLiteralConverter", <<"TemplateLiteralType">> >>,
    <<"thisConverter", <<"ThisType">> >>,
    <<"tupleConverter", <<"TupleType">> >>,
    <<"typeOperatorConverter", <<"TypeOperator">> >>,
    <<"unionConverter", <<"UnionType">> >> >>

\* types.ts:45  loadConverters(): fills the table once
loadConverters(table) ==
    IF DOMAIN table # {} THEN table
    ELSE LET keys == UNION {Range(actors[i][2]) : i \in DOMAIN actors}
         IN [key \in keys |->
                actors[CHOOSE i \in DOMAIN actors : key \in Range(actors[i][2])][1]]

\* converters.get(kind)
getConverter(table, kind) ==
    IF kind \in DOMAIN table THEN table[kind] ELSE "undefined"

\* types.ts:255  keywordNames
keywordNames(kind) ==
    CASE kind = "AnyKeyword" -> "any"
      [] kind = "BigIntKeyword" -> "bigint"
      [] kind = "BooleanKeyword" -> "boolean"
      [] kind = "NeverKeyword" -> "never"
      [] kind = "NumberKeyword" -> "number"
      [] kind = "ObjectKeyword" -> "object"
      [] kind = "StringKeyword" -> "string"
      [] kind = "SymbolKeyword" -> "symbol"
      [] kind = "UndefinedKeyword" -> "undefined"
      [] kind = "UnknownKeyword" -> "unknown"
      [] kind = "VoidKeyword" -> "void"
      [] kind = "IntrinsicKeyword" -> "intrinsic"

\* types.ts:656  supportedOperatorNames
supportedOperatorNames(operator) ==
    CASE operator = "KeyOfKeyword" -> "keyof"
      [] operator = "UniqueKeyword" -> "unique"
      [] operator = "ReadonlyKeyword" -> "readonly"

(***************************************************************************)
(* The converters.  For a converter X and an entry point e:                *)
(*   X_e_calls   the nested calls the body makes, in evaluation order      *)
(*   X_e         what the body returns, given the nested calls' results r  *)
(*   X_e_ok      the body's assertions (absent: none)                      *)
(***************************************************************************)
\* types.ts:145  arrayConverter
arrayConverter_convert_calls(node) == <<CTn(node[2])>>
arrayConverter_convert(node, r) == Ret(<<"Array", r[1]>>)
arrayConverter_convertType_ok(type) == Len(type[2]) > 0
arrayConverter_convertType_calls(type) == <<CTt(type[2][1])>>
arrayConverter_convertType(type, r) == Ret(<<"Array", r[1]>>)

\* types.ts:159  conditionalConverter
conditionalConverter_convert_calls(node) ==
    <<CTn(node[2]), CTn(node[3]), CTn(node[4]), CTn(node[5])>>
conditionalConverter_convert(node, r) ==
    Ret(<<"Conditional", r[1], r[2], r[3], r[4]>>)
conditionalConverter_convertType_calls(type) ==
    <<CTt(type[2]), CTt(type[3]), CTt(type[4]), CTt(type[5])>>
conditionalConverter_convertType(type, r) ==
    Ret(<<"Conditional", r[1], r[2], r[3], r[4]>>)

\* types.ts:182  exprWithTypeArgsConverter
exprWithTypeArgsConverter_convert_calls(node) ==
    IF node[3] = NoSymbol THEN <<CTt(node[5])>> ELSE SeqOf(CTn, node[4])
exprWithTypeArgsConverter_convert(node, r) ==
    IF node[3] = NoSymbol THEN Ret(r[1])
    ELSE Ret(<<"Reference", node[2], resolveAliasedSymbol(node[3]), TRUE, r>>)
exprWithTypeArgsConverter_convertType(type) == requestBugReport(FALSE, type)

\* types.ts:209  indexedAccessConverter
indexedAccessConverter_convert_calls(node) == <<CTn(node[2]), CTn(node[3])>>
indexedAccessConverter_convert(node, r) == Ret(<<"IndexedAccess", r[1], r[2]>>)
indexedAccessConverter_convertType_calls(type) == <<CTt(type[2]), CTt(type[3])>>
indexedAccessConverter_convertType(type, r) == Ret(<<"IndexedAccess", r[1], r[2]>>)

\* types.ts:228  inferredConverter
inferredConverter_convert(node) == Ret(<<"Inferred", node[2]>>)
inferredConverter_convertType(type) == Ret(<<"Inferred", type[2]>>)

\* types.ts:238  intersectionConverter
intersectionConverter_convert_calls(node) == SeqOf(CTn, node[2])
intersectionConverter_convert(node, r) == Ret(<<"Intersection", r>>)
intersectionConverter_convertType_calls(type) == SeqOf(CTt, type[2])
intersectionConverter_convertType(type, r) == Ret(<<"Intersection", r>>)

\* types.ts:270  keywordConverter
keywordConverter_convert(node) == Ret(Intrinsic(keywordNames(kindOf(node))))
keywordConverter_convertType(node) == Ret(Intrinsic(keywordNames(kindOf(node))))

\* types.ts:292  parensConverter
parensConverter_convert_calls(node) == <<CTn(node[2])>>
parensConverter_convert(node, r) == Ret(r[1])
parensConverter_convertType(type) == requestBugReport(FALSE, type)

\* types.ts:301  predicateConverter
predicateConverter_convert_calls(node) ==
    IF node[4] = NoNode THEN <<>> ELSE <<CTn(node[4])>>
predicateConverter_convert(node, r) ==
    Ret(<<"Predicate", node[2], node[3],
          IF node[4] = NoNode THEN Undefined ELSE r[1]>>)
predicateConverter_convertType_builds(type) ==
    Ret(<<"Predicate", "x", FALSE, Intrinsic("string")>>)

predicateConverter_convertType(type) == requestBugReport(FALSE, type)

\* types.ts:383  queryConverter
queryConverter_convert_ok(node) == node[3] # NoSymbol
queryConverter_convert(node) ==
    Ret(<<"Query", <<"Reference", node[2], resolveAliasedSymbol(node[3]), FALSE, <<>> >> >>)
queryConverter_convertType_ok(type) == getSymbol(type) # NoSymbol
queryConverter_convertType(type) ==
    Ret(<<"Query", <<"Reference", getSymbol(type),
                     resolveAliasedSymbol(getSymbol(type)), FALSE, <<>> >> >>)

\* types.ts:413  referenceConverter
referenceConverter_convert_ok(node) == node[3] # NoSymbol
referenceConverter_convert_calls(node) == SeqOf(CTn, node[5])
referenceConverter_convert(node, r) ==
    Ret(<<"Reference", node[2], resolveAliasedSymbol(node[3]), node[4], r>>)
referenceConverter_symbol(type) ==
    IF type[4] # NoSymbol THEN type[4] ELSE getSymbol(type)
referenceConverter_convertType_calls(type) ==
    IF referenceConverter_symbol(type) = NoSymbol THEN <<>>
    ELSE SeqOf(CTt, type[6])
referenceConverter_convertType(type, r) ==
    IF referenceConverter_symbol(type) = NoSymbol
    THEN [type |-> Unknown(typeToString(type)),
          logs |-> << <<"warn", "Bad reference type", typeToString(type)>> >>]
    ELSE Ret(<<"Reference", referenceConverter_symbol(type),
               resolveAliasedSymbol(referenceConverter_symbol(type)), type[5], r>>)

\* types.ts:462  namedTupleMemberConverter
namedTupleMemberConverter_convert_calls(node) == <<CTn(node[4])>>
namedTupleMemberConverter_convert(node, r) ==
    Ret(<<"NamedTupleMember", node[2], node[3], r[1]>>)
namedTupleMemberConverter_convertType(type) == requestBugReport(FALSE, type)

\* types.ts:482  mappedConverter
mappedConverter_convert_calls(node) ==
    <<CTn(node[6]), CTn(node[4])>>
        \o (IF node[7] = NoNode THEN <<>> ELSE <<CTn(node[7])>>)
mappedConverter_convert(node, r) ==
    LET optionalModifier == kindToModifier(node[5])
        templateType == r[1]
    IN Ret(<<"Mapped", node[3], r[2],
             IF optionalModifier = "+" THEN removeUndefined(templateType)
             ELSE templateType,
             kindToModifier(node[2]), optionalModifier,
             IF node[7] = NoNode THEN Undefined ELSE r[3]>>)
mappedConverter_convertType_calls(type) ==
    <<CTt(type[6]), CTt(type[5])>>
        \o (IF type[7] = NoType THEN <<>> ELSE <<CTt(type[7])>>)
mappedConverter_convertType_stripsOnAnyDelta(type, node, r) ==
    LET optionalModifier == kindToModifier(node[5])
        templateType == r[1]
    IN Ret(<<"Mapped", type[4], r[2],
             IF optionalModifier # "undefined" THEN removeUndefined(templateType)
             ELSE templateType,
             kindToModifier(node[2]), optionalModifier,
             IF type[7] = NoType THEN Undefined ELSE r[3]>>)

mappedConverter_convertType(type, node, r) ==
    LET optionalModifier == kindToModifier(node[5])
        templateType == r[1]
    IN Ret(<<"Mapped", type[4], r[2],
             IF optionalModifier = "+" THEN removeUndefined(templateType)
             ELSE templateType,
             kindToModifier(node[2]), optionalModifier,
             IF type[7] = NoType THEN Undefined ELSE r[3]>>)

\* types.ts:526  literalTypeConverter
literalTypeConverter_convert(node) ==
    LET literal == node[2]
    IN CASE literal[1] \in {"TrueKeyword", "FalseKeyword"} ->
              Ret(<<"Literal", <<"boolean", literal[1] = "TrueKeyword">> >>)
         [] literal[1] = "StringLiteral" ->
              Ret(<<"Literal", <<"string", literal[2]>> >>)
         [] literal[1] = "NumericLiteral" ->
              Ret(<<"Literal", <<"number", literal[2]>> >>)
         [] literal[1] = "NullKeyword" -> Ret(<<"Literal", <<"null">> >>)
         [] literal[1] = "PrefixUnaryExpression" ->
              CASE literal[2][1] = "NumericLiteral" ->
                     Ret(<<"Literal", <<"number", -literal[2][2]>> >>)
                [] literal[2][1] = "BigIntLiteral" ->
                     Ret(<<"Literal", <<"bigint", -literal[2][2]>> >>)
                [] OTHER -> requestBugReport(TRUE, literal)
         [] literal[1] = "BigIntLiteral" ->
              Ret(<<"Literal", <<"bigint", literal[2]>> >>)
         [] OTHER -> requestBugReport(TRUE, literal)
literalTypeConverter_convertType(type, node) ==
    LET literal == node[2]
    IN CASE literal[1] = "StringLiteral" ->
              Ret(<<"Literal", <<"string", literal[2]>> >>)
         [] literal[1] = "NumericLiteral" ->
              Ret(<<"Literal", <<"number", literal[2]>> >>)
         [] literal[1] \in {"TrueKeyword", "FalseKeyword"} ->
              Ret(<<"Literal", <<"boolean", literal[1] = "TrueKeyword">> >>)
         [] literal[1] = "NullKeyword" -> Ret(<<"Literal", <<"null">> >>)
         [] OTHER ->
              IF type[2][1] = "bigint"
              THEN Ret(<<"Literal", <<"bigint",
                         IF type[2][2] THEN -type[2][3] ELSE type[2][3]>> >>)
              ELSE requestBugReport(FALSE, type)

\* types.ts:593  templateLiteralConverter
templateLiteralConverter_convert_calls(node) ==
    [i \in 1..Len(node[3]) |-> CTn(node[3][i][1])]
templateLiteralConverter_convert(node, r) ==
    Ret(<<"TemplateLiteral", node[2],
          [i \in 1..Len(node[3]) |-> <<r[i], node[3][i][2]>>]>>)
templateLiteralConverter_convertType_ok(type) == Len(type[2]) = Len(type[3]) + 1
templateLiteralConverter_convertType_calls(type) == SeqOf(CTt, type[3])
templateLiteralConverter_convertType(type, r) ==
    Ret(<<"TemplateLiteral", type[2][1],
          [i \in 1..Len(type[3]) |-> <<r[i], type[2][i + 1]>>]>>)

\* types.ts:617  thisConverter
thisConverter_convert == Ret(Intrinsic("this"))
thisConverter_convertType == Ret(Intrinsic("this"))

tupleConverter_convertType_positional(type, node, r) == Ret(<<"Tuple", r>>)

\* types.ts:627  tupleConverter
tupleConverter_convert_calls(node) == SeqOf(CTn, node[2])
tupleConverter_convert(node, r) == Ret(<<"Tuple", r>>)
tupleConverter_convertType_calls(type) ==
    [i \in 1..Len(type[2]) |-> CTt(type[2][i].type)]
tupleConverter_convertType(type, node, r) ==
    IF \A i \in 1..Len(node[2]) : node[2][i][1] = "NamedTupleMember"
    THEN Ret(<<"Tuple",
               [i \in 1..Len(r) |->
                   <<"NamedTupleMember", node[2][i][2], node[2][i][3],
                     removeUndefined(r[i])>>]>>)
    ELSE Ret(<<"Tuple", r>>)

\* types.ts:662  typeOperatorConverter
typeOperatorConverter_convert_calls(node) == <<CTn(node[3])>>
typeOperatorConverter_convert(node, r) ==
    Ret(<<"TypeOperator", r[1], supportedOperatorNames(node[2])>>)
typeOperatorConverter_convertType_ok_anyOperator(type, node) == isObjectType(type)

typeOperatorConverter_convertType_ok(type, node) ==
    node[2] = "ReadonlyKeyword" => isObjectType(type)
typeOperatorConverter_convertType_calls(type, node) ==
    CASE node[2] = "ReadonlyKeyword" -> SeqOf(CTt, type[2])
      [] node[2] = "KeyOfKeyword" -> <<CTt(type[2])>>
      [] OTHER -> <<>>
typeOperatorConverter_convertType(type, node, r) ==
    CASE node[2] = "ReadonlyKeyword" ->
           Ret(<<"TypeOperator",
                 IF type[3] THEN <<"Tuple", r>> ELSE <<"Array", r[1]>>,
                 "readonly">>)
      [] node[2] = "KeyOfKeyword" -> Ret(<<"TypeOperator", r[1], "keyof">>)
      [] OTHER -> requestBugReport(FALSE, type)

\* types.ts:702  unionConverter
unionConverter_convert_calls(node) == SeqOf(CTn, node[2])
unionConverter_convert(node, r) == Ret(<<"Union", r>>)
unionConverter_convertType_calls(type) == SeqOf(CTt, type[2])
unionConverter_convertType(type, r) == Ret(<<"Union", r>>)

(***************************************************************************)
(* Dispatch through the TypeConverter interface (types.ts:32-42):          *)
(* converter.convert(context, node) and                                    *)
(* converter.convertType(context, type, node).                             *)
(***************************************************************************)
\* Whether the assertions at the head of the converter body hold.
converterOk(op, entry, x, node) ==
    CASE op = "arrayConverter" /\ entry = "convertType" -> arrayConverter_convertType_ok(x)
      [] op = "queryConverter" /\ entry = "convert" -> queryConverter_convert_ok(x)
      [] op = "queryConverter" /\ entry = "convertType" -> queryConverter_convertType_ok(x)
      [] op = "referenceConverter" /\ entry = "convert" -> referenceConverter_convert_ok(x)
      [] op = "templateLiteralConverter" /\ entry = "convertType" ->
           templateLiteralConverter_convertType_ok(x)
      [] op = "typeOperatorConverter" /\ entry = "convertType" ->
           typeOperatorConverter_convertType_ok(x, node)
      [] OTHER -> TRUE

\* The nested calls of converter.convert(context, node).
convertCalls(op, node) ==
    CASE op = "arrayConverter" -> arrayConverter_convert_calls(node)
      [] op = "conditionalConverter" -> conditionalConverter_convert_calls(node)
      [] op = "exprWithTypeArgsConverter" -> exprWithTypeArgsConverter_convert_calls(node)
      [] op = "indexedAccessConverter" -> indexedAccessConverter_convert_calls(node)
      [] op = "intersectionConverter" -> intersectionConverter_convert_calls(node)
      [] op = "parensConverter" -> parensConverter_convert_calls(node)
      [] op = "predicateConverter" -> predicateConverter_convert_calls(node)
      [] op = "referenceConverter" -> referenceConverter_convert_calls(node)
      [] op = "namedTupleMemberConverter" -> namedTupleMemberConverter_convert_calls(node)
      [] op = "mappedConverter" -> mappedConverter_convert_calls(node)
      [] op = "templateLiteralConverter" -> templateLiteralConverter_convert_calls(node)
      [] op = "tupleConverter" -> tupleConverter_convert_calls(node)
      [] op = "typeOperatorConverter" -> typeOperatorConverter_convert_calls(node)
      [] op = "unionConverter" -> unionConverter_convert_calls(node)
      [] OTHER -> <<>>

\* The nested calls of converter.convertType(context, type, node).
convertTypeCalls(op, type, node) ==
    CASE op = "arrayConverter" -> arrayConverter_convertType_calls(type)
      [] op = "conditionalConverter" -> conditionalConverter_convertType_calls(type)
      [] op = "indexedAccessConverter" -> indexedAccessConverter_convertType_calls(type)
      [] op = "intersectionConverter" -> intersectionConverter_convertType_calls(type)
      [] op = "referenceConverter" -> referenceConverter_convertType_calls(type)
      [] op = "mappedConverter" -> mappedConverter_convertType_calls(type)
      [] op = "templateLiteralConverter" -> templateLiteralConverter_convertType_calls(type)
      [] op = "tupleConverter" -> tupleConverter_convertType_calls(type)
      [] op = "typeOperatorConverter" -> typeOperatorConverter_convertType_calls(type, node)
      [] op = "unionConverter" -> unionConverter_convertType_calls(type)
      [] OTHER -> <<>>

\* What converter.convert(context, node) returns.
convertRet(op, node, r) ==
    CASE op = "arrayConverter" -> arrayConverter_convert(node, r)
      [] op = "conditionalConverter" -> conditionalConverter_convert(node, r)
      [] op = "exprWithTypeArgsConverter" -> exprWithTypeArgsConverter_convert(node, r)
      [] op = "indexedAccessConverter" -> indexedAccessConverter_convert(node, r)
      [] op = "inferredConverter" -> inferredConverter_convert(node)
      [] op = "intersectionConverter" -> intersectionConverter_convert(node, r)
      [] op = "keywordConverter" -> keywordConverter_convert(node)
      [] op = "parensConverter" -> parensConverter_convert(node, r)
      [] op = "predicateConverter" -> predicateConverter_convert(node, r)
      [] op = "queryConverter" -> queryConverter_convert(node)
      [] op = "referenceConverter" -> referenceConverter_convert(node, r)
      [] op = "namedTupleMemberConverter" -> namedTupleMemberConverter_convert(node, r)
      [] op = "mappedConverter" -> mappedConverter_convert(node, r)
      [] op = "literalTypeConverter" -> literalTypeConverter_convert(node)
      [] op = "templateLiteralConverter" -> templateLiteralConverter_convert(node, r)
      [] op = "thisConverter" -> thisConverter_convert
      [] op = "tupleConverter" -> tupleConverter_convert(node, r)
      [] op = "typeOperatorConverter" -> typeOperatorConverter_convert(node, r)
      [] op = "unionConverter" -> unionConverter_convert(node, r)

\* What converter.convertType(context, type, node) returns.
convertTypeRet(op, type, node, r) ==
    CASE op = "arrayConverter" -> arrayConverter_convertType(type, r)
      [] op = "conditionalConverter" -> conditionalConverter_convertType(type, r)
      [] op = "exprWithTypeArgsConverter" -> exprWithTypeArgsConverter_convertType(type)
      [] op = "indexedAccessConverter" -> indexedAccessConverter_convertType(type, r)
      [] op = "inferredConverter" -> inferredConverter_convertType(type)
      [] op = "intersectionConverter" -> intersectionConverter_convertType(type, r)
      [] op = "keywordConverter" -> keywordConverter_convertType(node)
      [] op = "parensConverter" -> parensConverter_convertType(type)
      [] op = "predicateConverter" -> predicateConverter_convertType(type)
      [] op = "queryConverter" -> queryConverter_convertType(type)
      [] op = "referenceConverter" -> referenceConverter_convertType(type, r)
      [] op = "namedTupleMemberConverter" -> namedTupleMemberConverter_convertType(type)
      [] op = "mappedConverter" -> mappedConverter_convertType(type, node, r)
      [] op = "literalTypeConverter" -> literalTypeConverter_convertType(type, node)
      [] op = "templateLiteralConverter" -> templateLiteralConverter_convertType(type, r)
      [] op = "thisConverter" -> thisConverter_convertType
      [] op = "tupleConverter" -> tupleConverter_convertType(type, node, r)
      [] op = "typeOperatorConverter" -> typeOperatorConverter_convertType(type, node, r)
      [] op = "unionConverter" -> unionConverter_convertType(type, r)

(***************************************************************************)
(* Reflections (../models) and the Context calls the code makes.           *)
(***************************************************************************)
\* new DeclarationReflection / SignatureReflection / ParameterReflection /
\* TypeParameterReflection (name, kind, parent)
Refl(cls, name, kind, parent) ==
    [cls |-> cls, name |-> name, kind |-> kind, parent |-> parent,
     type |-> Undefined, optional |-> FALSE, rest |-> FALSE,
     defaultValue |-> "undefined",
     hasTypeParameters |-> FALSE, typeParameters |-> <<>>,
     parameters |-> <<>>, signatures |-> <<>>,
     constraint |-> Undefined, default |-> Undefined]

\* The reflections the external driver owns when it calls into the core: the
\* declaration that is context.scope and a signature it is filling in.
RootScope == 1
RootSignature == 2
DriverReflections ==
    << Refl("Declaration", "root", "Function", 0),
       Refl("Signature", "root", "CallSignature", 1) >>

\* The module-level and Context state a call reads and writes.
Cur == [conv |-> converters, seen |-> seenTypeSymbols, refl |-> reflections,
        reg |-> registered, ev |-> events, log |-> log]

Frame(op, entry, x, node, sym, todo, scope, refl) ==
    [op |-> op, entry |-> entry, x |-> x, node |-> node, sym |-> sym,
     todo |-> todo, done |-> <<>>, scope |-> scope, refl |-> refl]

Returned(S, t) == [tag |-> "return", S |-> S, ret |-> t]
Pushed(S, f) == [tag |-> "push", S |-> S, frame |-> f]
Thrown(S) == [tag |-> "throw", S |-> S]

\* context.registerReflection(reflection, symbol)
registerReflection(S, id, symbol) == [S EXCEPT !.reg = Append(@, <<id, symbol>>)]
\* context.trigger(event, reflection, node)
trigger(S, event, id, anchor) == [S EXCEPT !.ev = Append(@, <<event, id, anchor>>)]
logger(S, level, message, text) == [S EXCEPT !.log = Append(@, <<level, message, text>>)]

(***************************************************************************)
(* The driver, types.ts:85-143.                                            *)
(***************************************************************************)
guardHit_exemptsArrays(seen, symbol, node) ==
    kindOf(node) \notin {"TypeReference", "ArrayType"} /\ symbol \in seen

\* types.ts:117-120  the guard test
guardHit(seen, symbol, node) ==
    kindOf(node) # "TypeReference" /\ symbol \in seen

guardAfterAdd_never(seen, symbol) == seen

\* types.ts:127  seenTypeSymbols.add(symbol)
guardAfterAdd(seen, symbol) == seen \cup {symbol}

guardAfterReturn_keeps(seen, symbol) == seen

\* types.ts:133  if (symbol) seenTypeSymbols.delete(symbol)
guardAfterReturn(seen, symbol) ==
    IF symbol # NoSymbol THEN seen \ {symbol} ELSE seen

typeLiteralConverter_enter_signaturesFirst(S, scope, entry, x, node, sym) ==
    LET obj == Obj(x[2])
        id == Len(S.refl) + 1
        S1 == [S EXCEPT !.refl = Append(@, Refl("Declaration", "__type", "TypeLiteral", scope))]
        S2 == registerReflection(S1, id, obj.symbol)
        S3 == trigger(S2, "createDeclaration", id,
                      IF entry = "convert" THEN getText(node) ELSE <<"undefined">>)
    IN IF obj.symbol = NoSymbol
       THEN Pushed(S, Frame("typeLiteralConverter", entry, x, node, sym, <<>>, scope, 0))
       ELSE Pushed(S3, Frame("typeLiteralConverter", entry, x, node, sym,
                             [i \in 1..Len(obj.sigs) |->
                                 <<"createSignature", "CallSignature", obj.sigs[i]>>]
                             \o [i \in 1..Len(obj.props) |-> <<"convertSymbol", obj.props[i]>>],
                             scope, id))

\* types.ts:321-334 and 352-363: the head of typeLiteralConverter.convert /
\* convertType, up to the first nested call
typeLiteralConverter_enter(S, scope, entry, x, node, sym) ==
    LET obj == Obj(x[2])
        id == Len(S.refl) + 1
        S1 == [S EXCEPT !.refl = Append(@, Refl("Declaration", "__type", "TypeLiteral", scope))]
        S2 == registerReflection(S1, id, obj.symbol)
        S3 == trigger(S2, "createDeclaration", id,
                      IF entry = "convert" THEN getText(node) ELSE <<"undefined">>)
    IN IF obj.symbol = NoSymbol
       THEN Pushed(S, Frame("typeLiteralConverter", entry, x, node, sym, <<>>, scope, 0))
       ELSE Pushed(S3, Frame("typeLiteralConverter", entry, x, node, sym,
                             [i \in 1..Len(obj.props) |-> <<"convertSymbol", obj.props[i]>>]
                             \o [i \in 1..Len(obj.sigs) |->
                                    <<"createSignature", "CallSignature", obj.sigs[i]>>],
                             scope, id))

\* types.ts:336-350 and 365-379: the rest of the body, after the nested calls
typeLiteralConverter_exit(S, f) ==
    IF f.refl = 0 THEN Returned(S, Intrinsic("Object"))
    ELSE LET nProps == Len(Obj(f.x[2]).props)
             sigs == [i \in 1..(Len(f.done) - nProps) |-> f.done[nProps + i][2]]
         IN Returned([S EXCEPT !.refl[f.refl].signatures = sigs],
                     <<"Reflection", f.refl>>)

enterConverter_arrayDeclares(S, scope, op, entry, x, node, sym) ==
    IF ~converterOk(op, entry, x, node) THEN Thrown(S)
    ELSE IF op = "typeLiteralConverter"
         THEN typeLiteralConverter_enter(S, scope, entry, x, node, sym)
         ELSE Pushed(IF op = "arrayConverter"
                     THEN registerReflection(S, scope, "Array") ELSE S,
                     Frame(op, entry, x, node, sym,
                           IF entry = "convert" THEN convertCalls(op, x)
                           ELSE convertTypeCalls(op, x, node),
                           scope, 0))

\* Entering converter.convert / converter.convertType (types.ts:97, 132).
enterConverter(S, scope, op, entry, x, node, sym) ==
    IF ~converterOk(op, entry, x, node) THEN Thrown(S)
    ELSE IF op = "typeLiteralConverter"
         THEN typeLiteralConverter_enter(S, scope, entry, x, node, sym)
         ELSE Pushed(S, Frame(op, entry, x, node, sym,
                              IF entry = "convert" THEN convertCalls(op, x)
                              ELSE convertTypeCalls(op, x, node),
                              scope, 0))

\* types.ts:85  convertType(context, typeOrNode), up to the converter call
convertType(S, scope, arg) ==
    IF arg = <<"undefined">> THEN Returned(S, Intrinsic("any"))
    ELSE
    LET S1 == [S EXCEPT !.conv = loadConverters(@)]
    IN IF arg[1] = "node"
       THEN LET node == arg[2]
                converter == getConverter(S1.conv, kindOf(node))
            IN IF converter # "undefined"
               THEN enterConverter(S1, scope, converter, "convert", node, node, NoSymbol)
               ELSE Returned(logger(S1, "warn", "Missing type node converter", getText(node)),
                             Unknown(getText(node)))
       ELSE LET type == arg[2]
                node == typeToTypeNode(type)
                symbol == getSymbol(type)
                S2 == IF symbol # NoSymbol
                      THEN [S1 EXCEPT !.seen = guardAfterAdd(@, symbol)] ELSE S1
                converter == getConverter(S1.conv, kindOf(node))
            IN IF symbol # NoSymbol /\ guardHit(S1.seen, symbol, node)
               THEN Returned(logger(S1, "verbose", "Refusing to recurse", typeToString(type)),
                             Unknown(typeToString(type)))
               ELSE IF converter # "undefined"
                    THEN enterConverter(S2, scope, converter, "convertType", type, node, symbol)
                    ELSE Returned(logger(S2, "warn", "Missing type converter", typeToString(type)),
                                  Unknown(typeToString(type)))

\* types.ts:97 and 132-134: the converter returns to convertType
exitConverter(S, f) ==
    LET o == IF f.op = "typeLiteralConverter" THEN typeLiteralConverter_exit(S, f)
             ELSE LET ret == IF f.entry = "convert" THEN convertRet(f.op, f.x, f.done)
                             ELSE convertTypeRet(f.op, f.x, f.node, f.done)
                  IN Returned([S EXCEPT !.log = @ \o ret.logs], ret.type)
    IN IF f.entry = "convertType"
       THEN Returned([o.S EXCEPT !.seen = guardAfterReturn(@, f.sym)], o.ret)
       ELSE o

(***************************************************************************)
(* The signature factory, factories/signature.ts.                          *)
(***************************************************************************)
\* signature.ts:92, 121  /__\d+/.test(name) ? "__namedParameters" : name
parameterName(name) ==
    IF name \in {"__0", "__1"} THEN "__namedParameters" ELSE name

\* ../convert-expression convertDefaultValue(node): the initializer's text
convertDefaultValue(hasNode, pnode) ==
    IF hasNode THEN pnode.initializer ELSE "undefined"

commentDeclaration_noParent(declaration) == declaration

\* signature.ts:35-42  the node documentation comments are anchored to
commentDeclaration(declaration) ==
    IF declaration # NoNode /\ declaration[1] \in {"ArrowFunction", "FunctionExpression"}
    THEN <<"parentOf", declaration[2]>>
    ELSE declaration

\* signature.ts:28-61  createSignature up to its first nested call
createSignature_enter(S, scope, item) ==
    LET sig == item[3]
        id == Len(S.refl) + 1
        S1 == [S EXCEPT !.refl = Append(@, Refl("Signature", S.refl[scope].name, item[2], scope))]
        tps == IF sig.hasTypeParameters
               THEN [i \in 1..Len(sig.typeParameters) |->
                        <<"typeParameter", sig.typeParameters[i], id>>]
               ELSE <<>>
        ps == [i \in 1..Len(sig.parameters) |->
                  <<"parameter", sig.parameters[i],
                    sig.declaration # NoNode /\ i <= Len(sig.declParameters),
                    IF sig.declaration # NoNode /\ i <= Len(sig.declParameters)
                    THEN sig.declParameters[i]
                    ELSE ParamNode("", NoNode, FALSE, FALSE, "undefined"),
                    id>>]
        ret == IF sig.predicate # NoNode THEN <<"predicate", sig.predicate>>
               ELSE CTt(sig.returnType)
    IN IF S.refl[scope].cls # "Declaration" THEN Thrown(S)
       ELSE Pushed(S1, Frame("createSignature", "", item, NoNode, NoSymbol,
                             tps \o ps \o <<ret>>, scope, id))

\* signature.ts:50-79  createSignature after its nested calls
createSignature_exit(S, f) ==
    LET sig == f.x[3]
        nT == IF sig.hasTypeParameters THEN Len(sig.typeParameters) ELSE 0
        nP == Len(sig.parameters)
        S1 == [S EXCEPT !.refl[f.refl].hasTypeParameters = sig.hasTypeParameters,
                        !.refl[f.refl].typeParameters = [i \in 1..nT |-> f.done[i][2]],
                        !.refl[f.refl].parameters = [i \in 1..nP |-> f.done[nT + i][2]],
                        !.refl[f.refl].type = f.done[nT + nP + 1]]
        S2 == registerReflection(S1, f.refl, NoSymbol)
    IN Returned(trigger(S2, "createSignature", f.refl, commentDeclaration(sig.declaration)),
                <<"refl", f.refl>>)

parameter_enter_ownedByScope(S, scope, item) ==
    LET param == item[2]
        id == Len(S.refl) + 1
        S1 == [S EXCEPT !.refl = Append(@, Refl("Parameter", parameterName(param.name),
                                                "Parameter", scope))]
    IN IF ~param.isParameter THEN Thrown(S)
       ELSE Pushed(registerReflection(S1, id, param.name),
                   Frame("parameter", "", item, NoNode, NoSymbol,
                         <<CTt(param.type)>>, scope, id))

\* signature.ts:88-101  one parameter of convertParameters, up to convertType
parameter_enter(S, scope, item) ==
    LET param == item[2]
        id == Len(S.refl) + 1
        S1 == [S EXCEPT !.refl = Append(@, Refl("Parameter", parameterName(param.name),
                                                "Parameter", item[5]))]
    IN IF ~param.isParameter THEN Thrown(S)
       ELSE Pushed(registerReflection(S1, id, param.name),
                   Frame("parameter", "", item, NoNode, NoSymbol,
                         <<CTt(param.type)>>, scope, id))

\* signature.ts:98-110  the rest of that parameter
parameter_exit(S, f) ==
    LET param == f.x[2]
        converted == f.done[1]
    IN Returned([S EXCEPT
                   !.refl[f.refl].type = IF param.questionToken
                                         THEN removeUndefined(converted) ELSE converted,
                   !.refl[f.refl].defaultValue = convertDefaultValue(f.x[3], f.x[4]),
                   !.refl[f.refl].optional = param.questionToken,
                   !.refl[f.refl].rest = param.dotDotDotToken],
                <<"refl", f.refl>>)

\* signature.ts:119-135  one parameter of convertParameterNodes
parameterNode_enter(S, scope, item) ==
    LET param == item[2]
        id == Len(S.refl) + 1
        S1 == [S EXCEPT !.refl = Append(@, Refl("Parameter", parameterName(param.name),
                                                "Parameter", item[3]))]
    IN Pushed(registerReflection(S1, id, param.name),
              Frame("parameterNode", "", item, NoNode, NoSymbol,
                    <<CTn(param.type)>>, scope, id))

\* signature.ts:132-144  the rest of that parameter
parameterNode_exit(S, f) ==
    LET param == f.x[2]
        converted == f.done[1]
    IN Returned([S EXCEPT
                   !.refl[f.refl].type = IF param.questionToken
                                         THEN removeUndefined(converted) ELSE converted,
                   !.refl[f.refl].defaultValue = convertDefaultValue(TRUE, param),
                   !.refl[f.refl].optional = param.questionToken,
                   !.refl[f.refl].rest = param.dotDotDotToken],
                <<"refl", f.refl>>)

\* signature.ts:114  convertParameterNodes(context, sigRef, parameters)
convertParameterNodes_enter(S, scope, item) ==
    Pushed(S, Frame("convertParameterNodes", "", item, NoNode, NoSymbol,
                    [i \in 1..Len(item[3]) |-> <<"parameterNode", item[3][i], item[2]>>],
                    scope, 0))
convertParameterNodes_exit(S, f) ==
    Returned(S, <<"refls", [i \in 1..Len(f.done) |-> f.done[i][2]]>>)

\* signature.ts:153-172  one type parameter of convertTypeParameters
typeParameter_enter(S, scope, item) ==
    LET tp == item[2]
    IN Pushed(S, Frame("typeParameter", "", item, NoNode, NoSymbol,
                       (IF tp.constraint # NoType THEN <<CTt(tp.constraint)>> ELSE <<>>)
                       \o (IF tp.default # NoType THEN <<CTt(tp.default)>> ELSE <<>>),
                       scope, 0))
typeParameter_exit(S, f) ==
    LET tp == f.x[2]
        id == Len(S.refl) + 1
        constraint == IF tp.constraint # NoType THEN f.done[1] ELSE Undefined
        defaultType == IF tp.default # NoType THEN f.done[Len(f.done)] ELSE Undefined
        paramRefl == [Refl("TypeParameter", tp.name, "TypeParameter", f.x[3])
                        EXCEPT !.constraint = constraint, !.default = defaultType]
        S1 == registerReflection([S EXCEPT !.refl = Append(@, paramRefl)], id, NoSymbol)
    IN Returned(trigger(S1, "createTypeParameter", id, <<"undefined">>), <<"refl", id>>)

\* signature.ts:181-197  one type parameter of convertTypeParameterNodes
typeParameterNode_enter(S, scope, item) ==
    LET tp == item[2]
    IN Pushed(S, Frame("typeParameterNode", "", item, NoNode, NoSymbol,
                       (IF tp.constraint # NoNode THEN <<CTn(tp.constraint)>> ELSE <<>>)
                       \o (IF tp.default # NoNode THEN <<CTn(tp.default)>> ELSE <<>>),
                       scope, 0))
typeParameterNode_exit(S, f) ==
    LET tp == f.x[2]
        id == Len(S.refl) + 1
        constraint == IF tp.constraint # NoNode THEN f.done[1] ELSE Undefined
        defaultType == IF tp.default # NoNode THEN f.done[Len(f.done)] ELSE Undefined
        paramRefl == [Refl("TypeParameter", tp.name, "TypeParameter", f.x[3])
                        EXCEPT !.constraint = constraint, !.default = defaultType]
        S1 == registerReflection([S EXCEPT !.refl = Append(@, paramRefl)], id, NoSymbol)
    IN Returned(trigger(S1, "createTypeParameter", id, <<"undefined">>), <<"refl", id>>)

\* signature.ts:176  convertTypeParameterNodes(context, parent, parameters);
\* parameters may be undefined, and then so is the result
convertTypeParameterNodes_enter(S, scope, item) ==
    IF ~item[3] THEN Returned(S, Undefined)
    ELSE Pushed(S, Frame("convertTypeParameterNodes", "", item, NoNode, NoSymbol,
                         [i \in 1..Len(item[4]) |-> <<"typeParameterNode", item[4][i], item[2]>>],
                         scope, 0))
convertTypeParameterNodes_exit(S, f) ==
    Returned(S, <<"refls", [i \in 1..Len(f.done) |-> f.done[i][2]]>>)

\* signature.ts:201-236  convertPredicate(predicate, context)
convertPredicate_enter(S, scope, item) ==
    Pushed(S, Frame("convertPredicate", "", item, NoNode, NoSymbol,
                    IF item[2][3] # NoType THEN <<CTt(item[2][3])>> ELSE <<>>,
                    scope, 0))
convertPredicate_exit_neverAsserts(S, f) ==
    LET predicate == f.x[2]
    IN Returned(S, <<"Predicate",
                     IF predicate[1] \in {"This", "AssertsThis"} THEN "this" ELSE predicate[2],
                     FALSE,
                     IF predicate[3] # NoType THEN f.done[1] ELSE Undefined>>)

convertPredicate_exit(S, f) ==
    LET predicate == f.x[2]
    IN Returned(S, <<"Predicate",
                     IF predicate[1] \in {"This", "AssertsThis"} THEN "this" ELSE predicate[2],
                     predicate[1] \in {"AssertsThis", "AssertsIdentifier"},
                     IF predicate[3] # NoType THEN f.done[1] ELSE Undefined>>)

\* ./symbols convertSymbol(context, prop) for a property: a Property
\* declaration under the scope, whose type is the converted type of the property
convertSymbol_enter(S, scope, item) ==
    LET prop == item[2]
        id == Len(S.refl) + 1
        S1 == [S EXCEPT !.refl = Append(@, Refl("Declaration", prop[1], "Property", scope))]
        S2 == registerReflection(S1, id, prop[1])
    IN Pushed(trigger(S2, "createDeclaration", id, <<"undefined">>),
              Frame("convertSymbol", "", item, NoNode, NoSymbol,
                    <<<<"convertType", prop[3]>>>>, scope, id))
convertSymbol_exit(S, f) ==
    Returned([S EXCEPT !.refl[f.refl].type = f.done[1],
                       !.refl[f.refl].optional = f.x[2][2]],
             <<"refl", f.refl>>)

(***************************************************************************)
(* Option conversion, utils/options/declaration (convert and its helpers). *)
(* A JavaScript value is a tagged tuple: <<"string", chars>> with chars a  *)
(* sequence of one-character strings, <<"number", n>>, <<"NaN">>,          *)
(* <<"Infinity">>, <<"-Infinity">>, <<"boolean", b>>, <<"null">>,          *)
(* <<"undefined">>, <<"array", values>>.                                   *)
(***************************************************************************)
\* String(value)
String(value) ==
    LET digit == <<"0", "1", "2", "3", "4", "5", "6", "7", "8", "9">>
        RECURSIVE natural(_)
        natural(n) == IF n < 10 THEN <<digit[n + 1]>>
                      ELSE Append(natural(n \div 10), digit[(n % 10) + 1])
    IN CASE value[1] = "string" -> value[2]
         [] value[1] = "number" ->
              IF value[2] < 0 THEN <<"-">> \o natural(-value[2]) ELSE natural(value[2])
         [] value[1] = "boolean" ->
              IF value[2] THEN <<"t", "r", "u", "e">> ELSE <<"f", "a", "l", "s", "e">>
         [] value[1] = "null" -> <<"n", "u", "l", "l">>
         [] value[1] = "undefined" -> <<"u", "n", "d", "e", "f", "i", "n", "e", "d">>
         [] value[1] = "NaN" -> <<"N", "a", "N">>
         [] value[1] = "Infinity" -> <<"I", "n", "f", "i", "n", "i", "t", "y">>
         [] value[1] = "-Infinity" -> <<"-", "I", "n", "f", "i", "n", "i", "t", "y">>

\* parseInt(chars, 10): leading white space is skipped, then an optional
\* sign, then the longest run of digits; NaN when there is no digit.
parseInt(chars) ==
    LET digit == <<"0", "1", "2", "3", "4", "5", "6", "7", "8", "9">>
        valueOf(c) == (CHOOSE d \in 1..10 : digit[d] = c) - 1
        RECURSIVE trimStart(_)
        trimStart(cs) == IF cs # <<>> /\ Head(cs) = " " THEN trimStart(Tail(cs)) ELSE cs
        RECURSIVE run(_)
        run(cs) == IF cs # <<>> /\ Head(cs) \in Range(digit)
                   THEN <<Head(cs)>> \o run(Tail(cs)) ELSE <<>>
        RECURSIVE number(_)
        number(ds) == IF ds = <<>> THEN 0
                      ELSE 10 * number(SubSeq(ds, 1, Len(ds) - 1)) + valueOf(ds[Len(ds)])
        s == trimStart(chars)
        signed == s # <<>> /\ Head(s) \in {"+", "-"}
        digits == run(IF signed THEN Tail(s) ELSE s)
    IN IF digits = <<>> THEN <<"NaN">>
       ELSE <<"number", IF signed /\ Head(s) = "-" THEN -number(digits) ELSE number(digits)>>

\* declaration:414  isFiniteNumber(value)
isFiniteNumber(value) == value[1] = "number"

valueIsWithinBounds_minOnly(value, minValue, maxValue) ==
    IF isFiniteNumber(minValue) THEN minValue[2] <= value ELSE TRUE

\* declaration:425  valueIsWithinBounds(value, minValue, maxValue)
valueIsWithinBounds(value, minValue, maxValue) ==
    IF isFiniteNumber(minValue) /\ isFiniteNumber(maxValue)
    THEN minValue[2] <= value /\ value <= maxValue[2]
    ELSE IF isFiniteNumber(minValue) THEN minValue[2] <= value
    ELSE IF isFiniteNumber(maxValue) THEN value <= maxValue[2]
    ELSE TRUE

\* declaration:392  getBoundsError(name, minValue, maxValue): the message
\* returned, or the Error thrown
getBoundsError(name, minValue, maxValue) ==
    IF isFiniteNumber(minValue) /\ isFiniteNumber(maxValue)
    THEN [tag |-> "return",
          value |-> <<name, "must be between", minValue[2], "and", maxValue[2]>>]
    ELSE IF isFiniteNumber(minValue)
    THEN [tag |-> "return", value |-> <<name, "must be >=", minValue[2]>>]
    ELSE IF isFiniteNumber(maxValue)
    THEN [tag |-> "return", value |-> <<name, "must be <=", maxValue[2]>>]
    ELSE [tag |-> "throw", message |-> <<"Unreachable">>]

\* declaration:364  getMapError(map, name); the map is a sequence of
\* <<key, value>> pairs in insertion order
getMapError(map, name) ==
    LET keys == [i \in DOMAIN map |-> map[i][1]]
        get(key) == IF \E i \in DOMAIN map : map[i][1] = key
                    THEN map[CHOOSE i \in DOMAIN map : map[i][1] = key][2]
                    ELSE <<"undefined">>
        getString(key) == String(get(key))
        numericEnum == \A i \in DOMAIN keys : getString(getString(keys[i])) = keys[i]
    IN <<name, "must be one of",
         IF numericEnum THEN SelectSeq(keys, LAMBDA k : parseInt(k)[1] = "NaN") ELSE keys>>

\* declaration:290  convert(value, option): the value returned, or the Error
\* thrown with its message
convert(value, option) ==
    LET Value(v) == [tag |-> "return", value |-> v]
        Error(message) == [tag |-> "throw", message |-> message]
        \* Boolean(value): false for null, undefined, NaN, "", 0 and false
        Boolean(v) ==
            CASE v[1] \in {"null", "undefined", "NaN"} -> FALSE
              [] v[1] = "string" -> v[2] # <<>>
              [] v[1] = "number" -> v[2] # 0
              [] v[1] = "boolean" -> v[2]
              [] OTHER -> TRUE
        \* value.split(",")
        RECURSIVE Split(_, _)
        Split(chars, piece) ==
            IF chars = <<>> THEN << <<"string", piece>> >>
            ELSE IF Head(chars) = "," THEN << <<"string", piece>> >> \o Split(Tail(chars), <<>>)
            ELSE Split(Tail(chars), Append(piece, Head(chars)))
        \* key.toLowerCase() over the letters the options use
        toLowerCase(chars) ==
            [i \in DOMAIN chars |->
                IF chars[i] = "A" THEN "a" ELSE IF chars[i] = "B" THEN "b" ELSE chars[i]]
    IN
    CASE option.type \in {"undefined", "String"} ->
           Value(IF value[1] \in {"null", "undefined"} THEN <<"string", <<>> >>
                 ELSE <<"string", String(value)>>)
      [] option.type = "Number" ->
           LET parsed == parseInt(String(value))
               numValue == IF parsed[1] = "NaN" THEN 0 ELSE parsed[2]
               message == getBoundsError(option.name, option.minValue, option.maxValue)
           IN IF ~valueIsWithinBounds(numValue, option.minValue, option.maxValue)
              THEN IF message.tag = "throw" THEN message ELSE Error(message.value)
              ELSE Value(<<"number", numValue>>)
      [] option.type = "Boolean" -> Value(<<"boolean", Boolean(value)>>)
      [] option.type = "Array" ->
           Value(IF value[1] = "array"
                 THEN <<"array", [i \in DOMAIN value[2] |-> <<"string", String(value[2][i])>>]>>
                 ELSE IF value[1] = "string" THEN <<"array", Split(value[2], <<>>)>>
                 ELSE <<"array", <<>> >>)
      [] option.type = "Map" ->
           LET key == toLowerCase(String(value))
           IN IF \E i \in DOMAIN option.map : option.map[i][1] = key
              THEN Value(option.map[CHOOSE i \in DOMAIN option.map : option.map[i][1] = key][2])
              ELSE IF \E i \in DOMAIN option.map :
                        option.map[i][2][1] = value[1] /\ option.map[i][2] = value
              THEN Value(value)
              ELSE Error(IF option.mapError # "undefined" THEN <<option.mapError>>
                         ELSE getMapError(option.map, option.name))
      [] option.type = "Mixed" -> Value(value)

\* A DeclarationOption: name, type, and the fields of the number and map options.
Option(name, type, minValue, maxValue, map, mapError) ==
    [name |-> name, type |-> type, minValue |-> minValue, maxValue |-> maxValue,
     map |-> map, mapError |-> mapError]

\* The driver's call convert(value, option): the value returned, or the Error
\* that reaches the driver.
convertOption(S, item) ==
    LET o == convert(item[2], item[3])
    IN IF o.tag = "return" THEN Returned(S, o.value) ELSE Thrown(S)

(***************************************************************************)
(* Calls and returns.                                                      *)
(***************************************************************************)
\* Making the call `item` with context.scope = scope.
Enter(S, scope, item) ==
    CASE item[1] = "convertType" -> convertType(S, scope, item[2])
      [] item[1] = "createSignature" -> createSignature_enter(S, scope, item)
      [] item[1] = "parameter" -> parameter_enter(S, scope, item)
      [] item[1] = "parameterNode" -> parameterNode_enter(S, scope, item)
      [] item[1] = "convertParameterNodes" -> convertParameterNodes_enter(S, scope, item)
      [] item[1] = "typeParameter" -> typeParameter_enter(S, scope, item)
      [] item[1] = "typeParameterNode" -> typeParameterNode_enter(S, scope, item)
      [] item[1] = "convertTypeParameterNodes" -> convertTypeParameterNodes_enter(S, scope, item)
      [] item[1] = "predicate" -> convertPredicate_enter(S, scope, item)
      [] item[1] = "convertSymbol" -> convertSymbol_enter(S, scope, item)
      [] item[1] = "convert" -> convertOption(S, item)

\* The call of frame f returns.
Exit(S, f) ==
    CASE f.op = "createSignature" -> createSignature_exit(S, f)
      [] f.op = "parameter" -> parameter_exit(S, f)
      [] f.op = "parameterNode" -> parameterNode_exit(S, f)
      [] f.op = "convertParameterNodes" -> convertParameterNodes_exit(S, f)
      [] f.op = "typeParameter" -> typeParameter_exit(S, f)
      [] f.op = "typeParameterNode" -> typeParameterNode_exit(S, f)
      [] f.op = "convertTypeParameterNodes" -> convertTypeParameterNodes_exit(S, f)
      [] f.op = "convertPredicate" -> convertPredicate_exit(S, f)
      [] f.op = "convertSymbol" -> convertSymbol_exit(S, f)
      [] OTHER -> exitConverter(S, f)

\* The context a frame hands to a nested call: context.withScope(reflection)
\* where the code derives one, the frame's own context otherwise.
childScope(f, item) ==
    CASE f.op \in {"typeLiteralConverter", "parameter", "parameterNode", "convertSymbol"} ->
           IF f.refl = 0 THEN f.scope ELSE f.refl
      [] f.op = "createSignature" ->
           IF item[1] \in {"convertType", "predicate"} THEN f.refl ELSE f.scope
      [] OTHER -> f.scope

(***************************************************************************)
(* Structural comparison of results.  A ReflectionType wraps a freshly     *)
(* created declaration; two results are structurally equal when they are   *)
(* equal with every reflection replaced by its content.                    *)
(***************************************************************************)
RECURSIVE ShapeT(_, _), ShapeR(_, _)
ShapeT(t, R) ==
    LET Sh(u) == ShapeT(u, R)
    IN CASE t[1] = "Array" -> <<"Array", Sh(t[2])>>
         [] t[1] \in {"Tuple", "Union", "Intersection"} -> <<t[1], SeqOf(Sh, t[2])>>
         [] t[1] = "NamedTupleMember" -> <<t[1], t[2], t[3], Sh(t[4])>>
         [] t[1] = "Conditional" -> <<t[1], Sh(t[2]), Sh(t[3]), Sh(t[4]), Sh(t[5])>>
         [] t[1] = "IndexedAccess" -> <<t[1], Sh(t[2]), Sh(t[3])>>
         [] t[1] = "Reference" -> <<t[1], t[2], t[3], t[4], SeqOf(Sh, t[5])>>
         [] t[1] = "Mapped" -> <<t[1], t[2], Sh(t[3]), Sh(t[4]), t[5], t[6], Sh(t[7])>>
         [] t[1] = "Predicate" -> <<t[1], t[2], t[3], Sh(t[4])>>
         [] t[1] = "TemplateLiteral" ->
              <<t[1], t[2], [i \in 1..Len(t[3]) |-> <<Sh(t[3][i][1]), t[3][i][2]>>]>>
         [] t[1] = "TypeOperator" -> <<t[1], Sh(t[2]), t[3]>>
         [] t[1] \in {"Reflection", "refl"} -> <<t[1], ShapeR(t[2], R)>>
         [] t[1] = "refls" -> <<t[1], [i \in 1..Len(t[2]) |-> ShapeR(t[2][i], R)]>>
         [] OTHER -> t
ShapeR(id, R) ==
    LET r == R[id]
        kids == SelectSeq([j \in 1..Len(R) |-> j], LAMBDA j : R[j].parent = id)
    IN <<r.cls, r.name, r.kind, ShapeT(r.type, R), r.optional, r.rest,
         r.defaultValue, ShapeT(r.constraint, R), ShapeT(r.default, R),
         [i \in 1..Len(kids) |-> ShapeR(kids[i], R)]>>

(***************************************************************************)
(* The analysed programs: the calls the external driver makes.             *)
(***************************************************************************)
T(type) == <<"convertType", <<"type", type>> >>
N(node) == <<"convertType", <<"node", node>> >>

TArr(type) == <<"arrayT", <<type>> >>
TUnion(types) == <<"unionT", types>>
TLit(value) == <<"literal", value>>

\* A template literal type whose texts do not outnumber its types by one.
TBadTemplate == <<"templateT", <<"a">>, <<TString>> >>

\* A resolved type that the Oracle projects onto a type predicate node.
TPredicate == <<"predicateT">>

\* The literal type node `abc` written as a template without substitutions.
NTemplateLiteral == <<"LiteralType", <<"NoSubstitutionTemplateLiteral", "abc">> >>

\* [string, number]   [a: string, b?: number]   [string, number?]   []
TElem(named, name, optional, type, decl) ==
    [named |-> named, name |-> name, optional |-> optional, type |-> type, decl |-> decl]
TPositional == <<"tupleT", << TElem(FALSE, "", FALSE, TString, TString),
                              TElem(FALSE, "", FALSE, TNumber, TNumber) >> >>
TNamed == <<"tupleT", << TElem(TRUE, "a", FALSE, TString, TString),
                         TElem(TRUE, "b", TRUE, TUnion(<<TNumber, TUndefined>>), TNumber) >> >>
TOptional == <<"tupleT", << TElem(FALSE, "", FALSE, TString, TString),
                            TElem(FALSE, "", TRUE, TUnion(<<TNumber, TUndefined>>), TNumber) >> >>
TEmpty == <<"tupleT", <<>> >>

\* { [K in string]: string | undefined } with the given modifier tokens and,
\* when hasName, an `as` clause
Tokens == {"none", "PlusToken", "MinusToken"}
TMapped(readonlyToken, questionToken, hasName) ==
    <<"mappedT", readonlyToken, questionToken, "K", TString,
      TUnion(<<TString, TUndefined>>), IF hasName THEN TString ELSE NoType>>

\* The types a parameter is declared with in the "params" programs.
ParamTypes ==
    { TString, TUndefined, TUnion(<<TString, TUndefined>>),
      TUnion(<<TUndefined, TString, TNumber>>), TUnion(<<TUndefined, TUndefined>>),
      TArr(TUnion(<<TString, TUndefined>>)) }

\* function f(p, q = 1): void, p declared with the given type and tokens
SigParams(type, questionToken, dotDotDotToken) ==
    Signature(<<>>, FALSE,
              << ParamSymbol("p", type, questionToken, dotDotDotToken),
                 [ParamSymbol("__0", TNumber, FALSE, FALSE) EXCEPT !.initializer = "1"] >>,
              <<"FunctionDeclaration", "f">>,
              << ParamNode("p", typeToTypeNode(type), questionToken, dotDotDotToken, "undefined"),
                 ParamNode("__0", NNumber, FALSE, FALSE, "1") >>,
              NoNode, TVoid)

\* function g<K extends string = string>(this: Window, v: K): v is K, an arrow function
SigGeneric ==
    Signature(<< [name |-> "K", constraint |-> TString, default |-> TString] >>, TRUE,
              << ParamSymbol("v", TNumber, FALSE, FALSE) >>,
              <<"ArrowFunction", "g">>,
              << ParamNode("v", NNumber, FALSE, FALSE, "undefined") >>,
              <<"Identifier", "v", TString>>, <<"intrinsic", "BooleanKeyword">>)

\* function h(this: string, v = 1, w = 2): void; the resolved parameter list
\* has no entry for `this`, the declaration's list has
SigThis ==
    Signature(<<>>, FALSE,
              << [ParamSymbol("v", TNumber, FALSE, FALSE) EXCEPT !.initializer = "1"],
                 [ParamSymbol("w", TNumber, FALSE, FALSE) EXCEPT !.initializer = "2"] >>,
              <<"FunctionDeclaration", "h">>,
              << ParamNode("this", NString, FALSE, FALSE, "undefined"),
                 ParamNode("v", NoNode, FALSE, FALSE, "1"),
                 ParamNode("w", NoNode, FALSE, FALSE, "2") >>,
              NoNode, TVoid)

\* A signature for which getDeclaration() returns undefined, its parameter
\* v = 1 having a declaration of its own.
SigNoDeclaration ==
    Signature(<<>>, FALSE,
              << [ParamSymbol("v", TNumber, FALSE, FALSE) EXCEPT !.initializer = "1"] >>,
              NoNode, <<>>, NoNode, TVoid)

\* function is(v: number): <predicate>, the predicate of the given kind on
\* `this` or on v, with the asserted type string or without one
SigPredicate(kind, hasType) ==
    Signature(<<>>, FALSE,
              << ParamSymbol("v", TNumber, FALSE, FALSE) >>,
              <<"FunctionDeclaration", "is">>,
              << ParamNode("v", NNumber, FALSE, FALSE, "undefined") >>,
              <<kind, "v", IF hasType THEN TString ELSE NoType>>,
              IF kind \in {"This", "Identifier"} THEN <<"intrinsic", "BooleanKeyword">>
              ELSE TVoid)

\* function make(): { a: string }, no type predicate
SigReturnsLiteral ==
    Signature(<<>>, FALSE, <<>>, <<"FunctionDeclaration", "make">>, <<>>,
              NoNode, <<"objT", "Plain">>)

\* The syntax kinds that have an entry in keywordNames (types.ts:255-268).
KeywordKinds ==
    { "AnyKeyword", "BigIntKeyword", "BooleanKeyword", "NeverKeyword", "NumberKeyword",
      "ObjectKeyword", "StringKeyword", "SymbolKeyword", "UndefinedKeyword",
      "UnknownKeyword", "VoidKeyword", "IntrinsicKeyword" }

\* <K extends string, U = { ... }>: the second default is an inline literal
TypeParameterNodes ==
    << [name |-> "K", constraint |-> NString, default |-> NoNode],
       [name |-> "U", constraint |-> NoNode, default |-> <<"TypeLiteral", "Node">>] >>

Programs ==
    { <<"cycles">>, <<"unsupported">>, <<"dual">>, <<"tuples">>, <<"factory">>,
      <<"literals">>, <<"violations">>, <<"signed">>, <<"defaults">> }
    \cup { <<"mapped", r, q, n>> :
             r \in Tokens \cup {"ReadonlyKeyword"},
             q \in Tokens \cup {"QuestionToken"}, n \in BOOLEAN }
    \cup { <<"params", t, q>> : t \in ParamTypes, q \in BOOLEAN }
    \cup { <<"predicates", k, h>> : k \in {"This", "AssertsThis", "Identifier", "AssertsIdentifier"}, h \in BOOLEAN }
    \cup { <<"keyword", k>> : k \in KeywordKinds }
    \cup { <<"number", lo, hi>> :
             lo \in { <<"undefined">>, <<"NaN">>, <<"number", 0>>, <<"number", 5>> },
             hi \in { <<"undefined">>, <<"Infinity">>, <<"number", 4>>, <<"number", 10>> } }
    \cup { <<"options">> }

\* Both entry points for a resolved type: convertType(type) and
\* convertType(node) on its representative node.
Both(type) == { T(type), N(typeToTypeNode(type)) }

Calls(p) ==
    CASE p[1] = "cycles" ->
           { T(<<"objT", "Rec">>), T(<<"objT", "Rec2">>), T(<<"objT", "A">>),
             T(<<"objT", "Twin">>), T(TArr(TArr(TString))) }
      [] p[1] = "unsupported" ->
           { T(<<"objT", "Ctor">>), N(<<"ConstructorType", "Ctor">>),
             T(TArr(<<"objT", "Ctor">>)), T(TArr(TBadTemplate)), T(TArr(TString)),
             T(<<"objT", "Fn">>) }
      [] p[1] = "dual" ->
           Both(TLit(<<"number", -1>>)) \cup Both(TLit(<<"string", "a">>))
             \cup Both(TArr(TArr(TString))) \cup Both(TNamed)
      [] p[1] = "tuples" ->
           Both(TPositional) \cup Both(TNamed) \cup Both(TOptional) \cup Both(TEmpty)
      [] p[1] = "factory" ->
           { <<"createSignature", "CallSignature", SigGeneric>>,
             <<"createSignature", "CallSignature", SigFn>>,
             T(<<"objT", "Fn">>), T(<<"objT", "Plain">>), N(<<"TypeLiteral", "Node">>),
             <<"convertTypeParameterNodes", RootSignature, TRUE, TypeParameterNodes>>,
             <<"convertTypeParameterNodes", RootSignature, FALSE, <<>> >> }
      [] p[1] = "literals" ->
           { T(<<"objT", "Hybrid">>), N(<<"TypeLiteral", "Hybrid">>),
             T(<<"objT", "NoSym">>), T(TArr(<<"objT", "Plain">>)) }
      [] p[1] = "violations" ->
           { T(TPredicate), T(TArr(TPredicate)), T(<<"uniqueT">>),
             T(<<"readonlyNonObjectT">>), T(TBadTemplate), T(TLit(<<"number", -1>>)),
             N(NTemplateLiteral) }
      [] p[1] = "signed" ->
           Both(TLit(<<"number", -2>>)) \cup Both(TLit(<<"number", 2>>))
             \cup Both(TLit(<<"bigint", TRUE, 5>>)) \cup Both(TLit(<<"bigint", FALSE, 5>>))
      [] p[1] = "defaults" ->
           { <<"createSignature", "CallSignature", SigThis>>,
             <<"createSignature", "CallSignature", SigNoDeclaration>>,
             <<"createSignature", "CallSignature", SigParams(TString, FALSE, FALSE)>> }
      [] p[1] = "predicates" ->
           { <<"createSignature", "CallSignature", SigPredicate(p[2], p[3])>>,
             <<"createSignature", "CallSignature", SigReturnsLiteral>> }
      [] p[1] = "keyword" -> Both(<<"intrinsic", p[2]>>)
      [] p[1] = "number" ->     \* values converted for the number option `port`
           { <<"convert", v, Option("port", "Number", p[2], p[3], <<>>, "undefined")>> :
               v \in { <<"string", <<" ", "1", "2", "x">> >>, <<"string", <<"-", "3">> >>,
                       <<"string", <<"x">> >>, <<"number", 4>>, <<"null">> } }
      [] p[1] = "options" ->    \* options of the other types, each with a value
           LET none == <<"undefined">>
               level == << << <<"a">>, <<"number", 1>> >>, << <<"b">>, <<"number", 2>> >> >>
           IN { <<"convert", <<"number", 4>>,
                  Option("name", "String", none, none, <<>>, "undefined")>>,
                <<"convert", <<"string", <<>> >>,
                  Option("flag", "Boolean", none, none, <<>>, "undefined")>>,
                <<"convert", <<"string", <<"a", ",", "b">> >>,
                  Option("list", "Array", none, none, <<>>, "undefined")>>,
                <<"convert", <<"string", <<"A">> >>,
                  Option("level", "Map", none, none, level, "undefined")>>,
                <<"convert", <<"string", <<"x">> >>,
                  Option("level", "Map", none, none, level, "undefined")>>,
                <<"convert", <<"null">>,
                  Option("any", "Mixed", none, none, <<>>, "undefined")>> }
      [] p[1] = "mapped" -> Both(TMapped(p[2], p[3], p[4]))
      [] p[1] = "params" ->
           { <<"createSignature", "CallSignature", SigParams(p[2], p[3], FALSE)>>,
             <<"convertParameterNodes", RootSignature,
               << ParamNode("p", typeToTypeNode(p[2]), p[3], FALSE, "undefined"),
                  ParamNode("q", NoNode, FALSE, TRUE, "0") >> >> }

(***************************************************************************)
(* The state machine.                                                      *)
(***************************************************************************)
Init ==
    /\ converters = <<>>
    /\ seenTypeSymbols = {}
    /\ stack = <<>>
    /\ status = "idle"
    /\ reflections = DriverReflections
    /\ registered = <<>>
    /\ events = <<>>
    /\ log = <<>>
    /\ history = <<>>
    /\ program \in Programs
    /\ pass = 1
    /\ guardAtCall = {}

Apply(S) ==
    /\ converters' = S.conv
    /\ seenTypeSymbols' = S.seen
    /\ reflections' = S.refl
    /\ registered' = S.reg
    /\ events' = S.ev
    /\ log' = S.log

\* The record of an outermost call that has ended.
Ended(call, outcome, S, ret, before) ==
    [pass |-> pass, call |-> call, outcome |-> outcome, ret |-> ret,
     shape |-> ShapeT(ret, S.refl), log |-> S.log,
     before |-> before, after |-> S.seen]

\* The outermost call returns `ret`.
Complete(call, S, ret, before) ==
    /\ Apply(S)
    /\ stack' = <<>>
    /\ status' = "idle"
    /\ history' = Append(history, Ended(call, "returned", S, ret, before))

\* An exception unwinds the whole stack and reaches the driver.
Abort(call, S, before) ==
    /\ Apply(S)
    /\ stack' = <<>>
    /\ status' = "aborted"
    /\ history' = Append(history, Ended(call, "threw", S, Undefined, before))

\* The driver calls into the core: convertType / createSignature /
\* convertParameterNodes with the root declaration as context.scope.
Outermost(call) ==
    /\ status = "idle"
    /\ Len(history) < MaxCalls
    /\ LET o == Enter([Cur EXCEPT !.log = <<>>], RootScope, call)
       IN CASE o.tag = "return" -> Complete(call, o.S, o.ret, seenTypeSymbols)
            [] o.tag = "push" ->
                 /\ Apply(o.S)
                 /\ stack' = <<o.frame>>
                 /\ status' = "running"
                 /\ UNCHANGED history
            [] o.tag = "throw" -> Abort(call, o.S, seenTypeSymbols)
    /\ guardAtCall' = seenTypeSymbols
    /\ UNCHANGED <<program, pass>>

\* The outermost call of the running stack.
CurrentCall ==
    LET f == stack[1]
    IN IF f.entry = "convert" THEN N(f.x)
       ELSE IF f.entry = "convertType" THEN T(f.x) ELSE f.x

\* The running call makes its next nested call.
Descend ==
    /\ status = "running"
    /\ stack[Len(stack)].todo # <<>>
    /\ LET n == Len(stack)
           f == stack[n]
           item == Head(f.todo)
           rest == [f EXCEPT !.todo = Tail(@)]
           o == Enter(Cur, childScope(f, item), item)
       IN CASE o.tag = "return" ->
                 /\ Apply(o.S)
                 /\ stack' = [stack EXCEPT ![n] = [rest EXCEPT !.done = Append(@, o.ret)]]
                 /\ UNCHANGED <<status, history>>
            [] o.tag = "push" /\ n < MaxDepth ->
                 /\ Apply(o.S)
                 /\ stack' = Append([stack EXCEPT ![n] = rest], o.frame)
                 /\ UNCHANGED <<status, history>>
            [] OTHER -> Abort(CurrentCall, o.S, guardAtCall)
    /\ UNCHANGED <<program, pass, guardAtCall>>

\* The running call returns to its caller.
Return ==
    /\ status = "running"
    /\ stack[Len(stack)].todo = <<>>
    /\ LET n == Len(stack)
           o == Exit(Cur, stack[n])
       IN IF n = 1 THEN Complete(CurrentCall, o.S, o.ret, guardAtCall)
          ELSE /\ Apply(o.S)
               /\ stack' = [SubSeq(stack, 1, n - 1) EXCEPT ![n - 1].done = Append(@, o.ret)]
               /\ UNCHANGED <<status, history>>
    /\ UNCHANGED <<program, pass, guardAtCall>>

\* A new conversion pass in the same process: a fresh Context (project,
\* registry, listeners); the module-level table and guard stay.
NewPass ==
    /\ status \in {"idle", "aborted"}
    /\ pass < MaxPasses
    /\ history # <<>> /\ history[Len(history)].pass = pass
    /\ pass' = pass + 1
    /\ status' = "idle"
    /\ reflections' = DriverReflections
    /\ registered' = <<>>
    /\ events' = <<>>
    /\ log' = <<>>
    /\ UNCHANGED <<converters, seenTypeSymbols, stack, history, program, guardAtCall>>

Next ==
    \/ \E call \in Calls(program) : Outermost(call)
    \/ Descend
    \/ Return
    \/ NewPass

Spec == Init /\ [][Next]_vars

(***************************************************************************)
(* Properties.                                                             *)
(***************************************************************************)
Returns == { i \in DOMAIN history : history[i].outcome = "returned" }
IsTypeCall(call) == call[1] = "convertType" /\ call[2][1] = "type"
IsNodeCall(call) == call[1] = "convertType" /\ call[2][1] = "node"

\* The nested call the running operation makes next, if it is a convertType
\* on a resolved type.
TypeCallPending ==
    /\ status = "running"
    /\ stack[Len(stack)].todo # <<>>
    /\ IsTypeCall(Head(stack[Len(stack)].todo))
PendingType == Head(stack[Len(stack)].todo)[2][2]

\* The pending call is answered on the spot with Unknown(typeToString(T)):
\* no frame is pushed, no reflection created, nothing registered or notified.
RefusedOnTheSpot ==
    /\ status' = "running"
    /\ Len(stack') = Len(stack)
    /\ stack'[Len(stack)].done =
         Append(stack[Len(stack)].done, Unknown(typeToString(PendingType)))
    /\ UNCHANGED <<reflections, registered, events, seenTypeSymbols>>

\* C1: every symbol a returned outermost convertType call added to the
\* recursion guard is out of the guard when that call returns: the guard a
\* returned call leaves contains nothing its caller did not find there, and
\* in a process where no call has thrown the guard is empty between calls.
C1_GuardReleasedOnReturn ==
    /\ \A i \in Returns : history[i].after \subseteq history[i].before
    /\ (status = "idle" /\ Returns = DOMAIN history) => seenTypeSymbols = {}

\* The outermost calls on a resolved type whose symbol was in the guard, the
\* projected node being of any kind or of a kind other than TypeReference,
\* were refused: Unknown(typeToString(T)), one verbose line, guard untouched.
OutermostRefused(anyKind) ==
    \A i \in DOMAIN history :
        LET call == history[i].call
        IN ( /\ IsTypeCall(call)
             /\ getSymbol(call[2][2]) \in history[i].before
             /\ anyKind \/ kindOf(typeToTypeNode(call[2][2])) # "TypeReference" )
           => /\ history[i].outcome = "returned"
              /\ history[i].ret = Unknown(typeToString(call[2][2]))
              /\ history[i].log = << <<"verbose", "Refusing to recurse",
                                       typeToString(call[2][2])>> >>
              /\ history[i].after = history[i].before

\* C2: a convertType call on a resolved type whose symbol is in the
\* recursion guard returns Unknown(typeToString(T)) on the spot and invokes
\* no converter, whatever kind of node the type projects onto.
C2_GuardHitAnyKind ==
    /\ []OutermostRefused(TRUE)
    /\ [][ ( /\ TypeCallPending
             /\ getSymbol(PendingType) \in seenTypeSymbols
             /\ stack' # stack )
           => RefusedOnTheSpot ]_vars

\* C2 (amended): a convertType call on a resolved type whose symbol is in
\* the recursion guard and whose projected node is not a TypeReference
\* returns Unknown(typeToString(T)) on the spot and invokes no converter.
C2_GuardHitExceptReference ==
    /\ []OutermostRefused(FALSE)
    /\ [][ ( /\ TypeCallPending
             /\ getSymbol(PendingType) \in seenTypeSymbols
             /\ kindOf(typeToTypeNode(PendingType)) # "TypeReference"
             /\ stack' # stack )
           => RefusedOnTheSpot ]_vars

\* A nested convertType on the self-referential object type has just been
\* refused while the type's own expansion is on the stack.
C2_Witness ==
    /\ status = "running"
    /\ "Rec" \in seenTypeSymbols
    /\ \E i \in DOMAIN stack :
         /\ stack[i].done # <<>>
         /\ stack[i].done[Len(stack[i].done)]
              = Unknown(typeToString(<<"objT", "Rec">>))

\* The frames that are expansions of an object type's body.
Expansions ==
    { i \in DOMAIN stack :
        stack[i].op = "typeLiteralConverter" /\ stack[i].entry = "convertType" }

\* C3: on a cyclic type graph every convertType call returns, and no symbol's
\* body is expanded a second time inside its own expansion: the closing
\* reference is an Unknown or a Reference.
C3_NoSecondExpansion ==
    /\ \A i, j \in Expansions : stack[i].sym = stack[j].sym => i = j
    /\ \A i \in DOMAIN history :
         program = <<"cycles">> => history[i].outcome = "returned"

\* The unsupported syntactic categories of the programs.
IsUnsupportedCall(call) ==
    \/ IsNodeCall(call) /\ getConverter(loadConverters(<<>>), kindOf(call[2][2])) = "undefined"
    \/ IsTypeCall(call)
         /\ getConverter(loadConverters(<<>>), kindOf(typeToTypeNode(call[2][2]))) = "undefined"
UnsupportedText(call) ==
    IF IsNodeCall(call) THEN getText(call[2][2]) ELSE typeToString(call[2][2])

UnsupportedMessage(call) ==
    IF IsNodeCall(call) THEN "Missing type node converter" ELSE "Missing type converter"

\* C4: converting a type of an unsupported category is never fatal: the call
\* returns Unknown with the type's text and logs exactly one diagnostic, the
\* missing-converter warning, and it does so each time the type is converted,
\* as if the type had not been converted before.
C4_UnsupportedNotFatal ==
    \A i \in DOMAIN history :
        (IsUnsupportedCall(history[i].call)
           /\ \A j \in 1..i : history[j].outcome = "returned")
        => /\ history[i].ret = Unknown(UnsupportedText(history[i].call))
           /\ history[i].log = << <<"warn", UnsupportedMessage(history[i].call),
                                     UnsupportedText(history[i].call)>> >>
           /\ history[i].after = history[i].before

\* C5: in a process whose calls have all returned, two outermost
\* convertType calls on the same resolved type return structurally equal
\* Types, whatever was converted in between.
C5_Idempotent ==
    Returns = DOMAIN history =>
      \A i, j \in DOMAIN history :
          (IsTypeCall(history[i].call) /\ history[i].call = history[j].call)
          => history[i].shape = history[j].shape

\* The self-referential object type and the nested array have each been
\* converted twice, with something else converted in between.
C5_Witness ==
    /\ Returns = DOMAIN history
    /\ Len(history) = 3
    /\ history[1].call = history[3].call
    /\ history[2].call # history[1].call
    /\ history[1].call \in {T(<<"objT", "Rec">>), T(TArr(TArr(TString)))}
    /\ history[2].call \in {T(<<"objT", "Rec">>), T(TArr(TArr(TString)))}

\* The outermost calls of one pass, in order.
PassEntries(p) == SelectSeq(history, LAMBDA h : h.pass = p)

\* C6: two passes over the same input produce the same output, also when one
\* runs after the other in the same process: as long as two passes have made
\* the same calls, each call has ended the same way with structurally equal
\* output.
C6_PassesAgree ==
    \A p, q \in 1..pass :
        LET a == PassEntries(p)
            b == PassEntries(q)
        IN \A k \in 1..Len(a) :
             (k <= Len(b) /\ \A m \in 1..k : a[m].call = b[m].call)
             => /\ a[k].outcome = b[k].outcome
                /\ a[k].shape = b[k].shape

\* C7: for a type T with representative node N, convert on N and convertType
\* on (T, N) end the same way with structurally equal Types.
C7_EntryPointsAgree ==
    \A i, j \in DOMAIN history :
        ( /\ IsTypeCall(history[i].call)
          /\ ~IsUnsupportedCall(history[i].call)
          /\ history[j].call = N(typeToTypeNode(history[i].call[2][2]))
          /\ history[i].before = {} /\ history[j].before = {} )
        => /\ history[i].outcome = history[j].outcome
           /\ history[i].shape = history[j].shape

\* The running operation is a parameter of createSignature or of
\* convertParameterNodes whose type has been converted and is about to be stored.
ParameterReturning ==
    /\ status = "running"
    /\ stack[Len(stack)].todo = <<>>
    /\ stack[Len(stack)].op \in {"parameter", "parameterNode"}

\* A converted type without the intrinsic undefined arms of its top-level
\* union, the union itself dropped when one arm remains.
WithoutUndefinedArms(t) ==
    IF t[1] # "Union" THEN t
    ELSE LET keep == { k \in DOMAIN t[2] : ~(t[2][k][1] = "Intrinsic" /\ t[2][k][2] = "undefined") }
             arms == SelectSeq([k \in DOMAIN t[2] |-> <<k \in keep, t[2][k]>>],
                               LAMBDA a : a[1])
         IN IF Cardinality(keep) = 1 THEN arms[1][2]
            ELSE <<"Union", [k \in DOMAIN arms |-> arms[k][2]]>>

\* C8: the type stored on a parameter with a question token, built by
\* createSignature or by convertParameterNodes, is the converted type without
\* the intrinsic undefined arms of its top-level union, collapsed to the sole
\* remaining arm when one remains; without a question token the converted
\* type is stored as it is, and a non-union type is never altered.
C8_OptionalCollapse ==
    [][ ParameterReturning =>
          LET f == stack[Len(stack)]
              converted == f.done[1]
              stored == reflections'[f.refl].type
          IN /\ stored = IF f.x[2].questionToken THEN WithoutUndefinedArms(converted)
                         ELSE converted
             /\ converted[1] # "Union" => stored = converted
             /\ reflections'[f.refl].optional = f.x[2].questionToken ]_vars

\* Both factories have built the optional parameter p?: string | undefined
\* and stored exactly the intrinsic string on it.
C8_Witness ==
    /\ program = <<"params", TUnion(<<TString, TUndefined>>), TRUE>>
    /\ Len(history) = 2 /\ Returns = {1, 2}
    /\ history[1].call # history[2].call
    /\ history[1].pass = history[2].pass
    /\ Cardinality({ i \in DOMAIN reflections :
                       /\ reflections[i].cls = "Parameter"
                       /\ reflections[i].name = "p"
                       /\ reflections[i].optional
                       /\ reflections[i].type = Intrinsic("string") }) = 2

\* The elements of the tuple an outermost call converts: whether each is
\* named, its name and its optional flag.
IsTupleCall(call) ==
    \/ IsTypeCall(call) /\ call[2][2][1] = "tupleT"
    \/ IsNodeCall(call) /\ call[2][2][1] = "TupleType"
TupleElements(call) ==
    IF IsTypeCall(call)
    THEN [k \in DOMAIN call[2][2][2] |->
            [named |-> call[2][2][2][k].named, name |-> call[2][2][2][k].name,
             optional |-> call[2][2][2][k].optional]]
    ELSE [k \in DOMAIN call[2][2][2] |->
            IF call[2][2][2][k][1] = "NamedTupleMember"
            THEN [named |-> TRUE, name |-> call[2][2][2][k][2],
                  optional |-> call[2][2][2][k][3]]
            ELSE [named |-> FALSE, name |-> "", optional |-> FALSE]]

IsMappedCall(call) ==
    \/ IsTypeCall(call) /\ call[2][2][1] = "mappedT"
    \/ IsNodeCall(call) /\ call[2][2][1] = "MappedType"
ReadonlyTokenOf(call) == call[2][2][2]
QuestionTokenOf(call) == IF IsTypeCall(call) THEN call[2][2][3] ELSE call[2][2][5]
Delta(token) ==
    IF token = "none" THEN "undefined"
    ELSE IF token = "MinusToken" THEN "-" ELSE "+"

\* C10: on both entry points the readonly and the optionality delta of a
\* mapped type each follow their own token: absent gives unchanged
\* (undefined), a bare or a plus token gives "+", a minus token gives "-".
C10_ModifierDeltas ==
    \A i \in Returns :
        IsMappedCall(history[i].call) =>
          /\ history[i].ret[1] = "Mapped"
          /\ history[i].ret[5] = Delta(ReadonlyTokenOf(history[i].call))
          /\ history[i].ret[6] = Delta(QuestionTokenOf(history[i].call))

\* { readonly [K in string]-?: ... } has been converted on both entry points:
\* the two deltas differ.
C10_Witness ==
    /\ program = <<"mapped", "ReadonlyKeyword", "MinusToken", FALSE>>
    /\ Returns = {1, 2}
    /\ IsTypeCall(history[1].call) /\ IsNodeCall(history[2].call)
    /\ history[1].ret[5] = "+" /\ history[1].ret[6] = "-"
    /\ history[2].ret[5] = "+" /\ history[2].ret[6] = "-"

\* The running conversions of an inline object/function-shape literal that
\* has a symbol.
LiteralFrames ==
    { i \in DOMAIN stack : stack[i].op = "typeLiteralConverter" /\ stack[i].refl # 0 }

\* The reflections owned by reflection id, in creation order.
Owned(id) ==
    SelectSeq([j \in DOMAIN reflections |-> j], LAMBDA j : reflections[j].parent = id)

\* The events and registry entries of reflection id.
EventsOf(id) == { k \in DOMAIN events : events[k][2] = id }
RegisteredOf(id) == { k \in DOMAIN registered : registered[k][1] = id }

\* While a literal is being converted: its Declaration exists under the scope
\* of the call, is registered once with the literal's symbol and announced
\* once, before anything of its members; the members converted so far are the
\* properties and then the call signatures in the Oracle's order, each
\* directly under the Declaration.
LiteralInProgress(i) ==
    LET f == stack[i]
        obj == Obj(f.x[2])
        nProps == Len(obj.props)
        started == Len(f.done) + (IF i < Len(stack) THEN 1 ELSE 0)
        kids == Owned(f.refl)
    IN /\ reflections[f.refl].cls = "Declaration"
       /\ reflections[f.refl].name = "__type"
       /\ reflections[f.refl].kind = "TypeLiteral"
       /\ reflections[f.refl].parent = f.scope
       /\ \E k \in DOMAIN registered :
            RegisteredOf(f.refl) = {k} /\ registered[k][2] = obj.symbol
       /\ \E k \in DOMAIN events :
            /\ { e \in EventsOf(f.refl) : events[e][1] = "createDeclaration" } = {k}
            /\ \A e \in DOMAIN events : events[e][2] > f.refl => k < e
       /\ \A j \in DOMAIN reflections : reflections[j].parent = f.refl => j > f.refl
       /\ Len(f.done) + Len(f.todo) + (IF i < Len(stack) THEN 1 ELSE 0)
            = nProps + Len(obj.sigs)
       /\ Len(kids) = started
       /\ \A k \in DOMAIN kids :
            IF k <= nProps
            THEN /\ reflections[kids[k]].cls = "Declaration"
                 /\ reflections[kids[k]].name = obj.props[k][1]
            ELSE /\ reflections[kids[k]].cls = "Signature"
                 /\ reflections[kids[k]].kind = "CallSignature"
                 /\ k <= Len(f.done)
                      => Len(reflections[kids[k]].parameters)
                           = Len(obj.sigs[k - nProps].parameters)

\* What the call of the top frame hands to its caller in this step.
Delivered ==
    IF Len(stack) > 1
    THEN LET d == stack'[Len(stack) - 1].done IN d[Len(d)]
    ELSE history'[Len(history')].ret

NoLiteral(stk) == \A i \in DOMAIN stk : stk[i].op # "typeLiteralConverter"
ConvertTypeStep ==
    /\ pass' = pass
    /\ \/ stack # <<>> /\ stack[1].entry \in {"convert", "convertType"}
       \/ /\ stack = <<>> /\ stack' # <<>>
          /\ stack'[1].entry \in {"convert", "convertType"}
       \/ /\ stack = <<>> /\ stack' = <<>> /\ history' # history
          /\ history'[Len(history')].call[1] = "convertType"

\* C12: only the inline object/function-shape literal has a side effect: as
\* long as the expansion of a convertType call has reached no such literal, it
\* creates no reflection, makes no registry entry, raises no notification and
\* leaves the scope of every caller as it was.
C12_OnlyLiteralHasEffects ==
    [][ (ConvertTypeStep /\ NoLiteral(stack) /\ NoLiteral(stack'))
        => /\ UNCHANGED <<reflections, registered, events>>
           /\ \A i \in DOMAIN stack :
                i <= Len(stack') => stack'[i].scope = stack[i].scope ]_vars

\* A named tuple, nested arrays and a literal type have been converted in
\* full and nothing but the driver's reflections exists.
C12_Witness ==
    /\ program = <<"dual">>
    /\ Returns = {1, 2, 3} /\ pass = 1
    /\ history[1].call = T(TNamed)
    /\ history[2].call = N(typeToTypeNode(TArr(TArr(TString))))
    /\ history[3].call = T(TLit(<<"string", "a">>))
    /\ reflections = DriverReflections
    /\ registered = <<>> /\ events = <<>>

\* The running createSignature calls.
SignatureFrames == { i \in DOMAIN stack : stack[i].op = "createSignature" }
SignatureEvents(id) == { e \in EventsOf(id) : events[e][1] = "createSignature" }

\* The node the signature-created notification is to carry.
CommentAnchor(sig) ==
    IF sig.declaration = NoNode THEN NoNode
    ELSE IF sig.declaration[1] \in {"ArrowFunction", "FunctionExpression"}
         THEN <<"parentOf", sig.declaration[2]>>
         ELSE sig.declaration

\* C13: a createSignature call made with a Declaration as scope produces one
\* Signature of the requested kind owned by that Declaration, registers it
\* once and raises one signature-created notification, after the
\* type-parameter-created notifications of the signature and after its
\* parameters and return type are converted; the notification carries the
\* parent of the backing declaration when that is an arrow function or a
\* function expression and the backing declaration itself otherwise.
C13_SignatureCreated ==
    /\ [](\A i \in SignatureFrames :
            LET f == stack[i]
            IN /\ reflections[f.scope].cls = "Declaration"
               /\ reflections[f.refl].cls = "Signature"
               /\ reflections[f.refl].kind = f.x[2]
               /\ reflections[f.refl].parent = f.scope
               /\ RegisteredOf(f.refl) = {}
               /\ SignatureEvents(f.refl) = {})
    /\ [](\A id \in DOMAIN reflections :
            /\ Cardinality(RegisteredOf(id)) <= 1
            /\ Cardinality(SignatureEvents(id)) <= 1)
    /\ [][ ( /\ status = "running"
             /\ Len(stack) \in SignatureFrames
             /\ stack[Len(stack)].todo = <<>> )
           => LET f == stack[Len(stack)]
                  sig == f.x[3]
                  nT == IF sig.hasTypeParameters THEN Len(sig.typeParameters) ELSE 0
                  typeParams == { j \in DOMAIN reflections :
                                    /\ reflections[j].cls = "TypeParameter"
                                    /\ reflections[j].parent = f.refl }
              IN /\ Len(f.done) = nT + Len(sig.parameters) + 1
                 /\ Cardinality(typeParams) = nT
                 /\ \A j \in typeParams :
                      \E e \in EventsOf(j) : events[e][1] = "createTypeParameter"
                 /\ registered' = Append(registered, <<f.refl, NoSymbol>>)
                 /\ events' = Append(events,
                                     <<"createSignature", f.refl, CommentAnchor(sig)>>)
                 /\ Len(reflections') = Len(reflections)
                 /\ reflections'[f.refl].type = f.done[Len(f.done)]
                 /\ Delivered = <<"refl", f.refl>> ]_vars

\* The generic arrow function's signature has been created under the root
\* declaration; its notification follows that of its type parameter and
\* carries the parent of the arrow function.
C13_Witness ==
    /\ program = <<"factory">>
    /\ Returns = {1} /\ status = "idle"
    /\ history[1].call = <<"createSignature", "CallSignature", SigGeneric>>
    /\ \E e1, e2 \in DOMAIN events :
         /\ e1 < e2
         /\ events[e1][1] = "createTypeParameter"
         /\ events[e2] = <<"createSignature", history[1].ret[2], <<"parentOf", "g">> >>
         /\ reflections[history[1].ret[2]].parent = RootScope

\* The calls of predicateConverter.convertType on the stack.
PredicateFrames ==
    { i \in DOMAIN stack :
        stack[i].op = "predicateConverter" /\ stack[i].entry = "convertType" }
ProjectsToPredicate(call) ==
    IsTypeCall(call) /\ kindOf(typeToTypeNode(call[2][2])) = "TypePredicate"
BugReport(type) == <<"warn", "Failed to convert type", typeToString(type)>>

AssertedCalls == { T(<<"readonlyNonObjectT">>), T(TBadTemplate), T(TArr(TBadTemplate)) }
UnhandledCalls == { T(TLit(<<"number", -1>>)), N(NTemplateLiteral), T(<<"uniqueT">>) }
UnhandledReport(call) ==
    IF IsNodeCall(call)
    THEN <<"warn", "Failed to convert type node", getText(call[2][2][2])>>
    ELSE BugReport(call[2][2])

SignedLiteralTypes ==
    { TLit(<<"number", -1>>), TLit(<<"number", -2>>),
      TLit(<<"bigint", TRUE, 5>>), TLit(<<"bigint", FALSE, 5>>) }
SignedValue(type) ==
    IF type[2][1] = "number" THEN <<"number", type[2][2]>>
    ELSE <<"bigint", IF type[2][2] THEN -type[2][3] ELSE type[2][3]>>

\* C16: a literal type whose literal is a numeric literal under a unary minus
\* converts on both entries to a Literal with the signed numeric value; a
\* big-integer literal, positive or negative, converts on both entries to a
\* Literal with the big integer of the same sign and magnitude.
C16_SignedLiterals ==
    \A i \in DOMAIN history :
        \A type \in SignedLiteralTypes :
            history[i].call \in Both(type)
            => /\ history[i].outcome = "returned"
               /\ history[i].ret = <<"Literal", SignedValue(type)>>

\* The reflections the core has created in this pass.
Created == { id \in DOMAIN reflections : id > Len(DriverReflections) }

\* The owners above reflection id, following at most n owner links.
RECURSIVE Ancestors(_, _)
Ancestors(id, n) ==
    IF n = 0 \/ reflections[id].parent \notin DOMAIN reflections THEN {}
    ELSE {reflections[id].parent} \cup Ancestors(reflections[id].parent, n - 1)

\* The reflections in the type-parameter, parameter and signature lists of
\* owner o.
Listed(o) ==
    LET r == reflections[o]
    IN { r.typeParameters[i] : i \in DOMAIN r.typeParameters }
       \cup { r.parameters[i] : i \in DOMAIN r.parameters }
       \cup { r.signatures[i] : i \in DOMAIN r.signatures }
ListSize(o) ==
    Len(reflections[o].typeParameters) + Len(reflections[o].parameters)
      + Len(reflections[o].signatures)

\* C17: the created reflections form a tree.  Every created reflection has
\* one owner, created before it and never changed afterwards: a Parameter and
\* a TypeParameter their Signature, a Signature and the Declaration of an
\* inline literal the scope current when they were created.  No reflection is
\* its own ancestor, and a reflection in a type-parameter, parameter or
\* signature list is in that list once, in the list of its owner and of no
\* other reflection.
C17_ReflectionTree ==
    /\ [](\A id \in Created :
            LET r == reflections[id]
            IN /\ r.parent \in 1..(id - 1)
               /\ r.cls \in {"Parameter", "TypeParameter"}
                    => reflections[r.parent].cls = "Signature"
               /\ id \notin Ancestors(id, Len(reflections))
               /\ \A o \in DOMAIN reflections : id \in Listed(o) => r.parent = o)
    /\ [](\A o \in DOMAIN reflections : Cardinality(Listed(o)) = ListSize(o))
    /\ [](\A i \in DOMAIN stack :
            LET f == stack[i]
            IN /\ (f.op \in {"createSignature", "typeLiteralConverter"} /\ f.refl # 0)
                    => reflections[f.refl].parent = f.scope
               /\ f.op = "parameter"
                    => /\ stack[i - 1].op = "createSignature"
                       /\ reflections[f.refl].parent = stack[i - 1].refl
               /\ f.op = "parameterNode" => reflections[f.refl].parent = f.x[3])
    /\ [][ pass' = pass
           => /\ Len(reflections') >= Len(reflections)
              /\ \A id \in DOMAIN reflections :
                   /\ reflections'[id].parent = reflections[id].parent
                   /\ reflections'[id].cls = reflections[id].cls ]_vars

\* A generic signature, a list of type-parameter nodes whose default is an
\* inline literal and a function-shape literal have been converted one after
\* the other: ten reflections in three subtrees under the driver's own.
C17_Witness ==
    /\ program = <<"factory">>
    /\ Returns = {1, 2, 3} /\ pass = 1
    /\ history[1].call = <<"createSignature", "CallSignature", SigGeneric>>
    /\ history[2].call = <<"convertTypeParameterNodes", RootSignature, TRUE, TypeParameterNodes>>
    /\ history[3].call = T(<<"objT", "Fn">>)
    /\ Len(history[2].ret[2]) = 2
    /\ \A k \in 1..2 : reflections[history[2].ret[2][k]].parent = RootSignature
    /\ \E d \in Created : reflections[d].kind = "TypeLiteral" /\ reflections[d].parent = RootScope
    /\ \E o \in Created : ListSize(o) >= 2
    /\ \E id \in Created : Cardinality(Ancestors(id, Len(reflections))) >= 3

\* The registrations that carry a backing symbol and are made by the literal
\* converter (types.ts:328, 362) or for a parameter (signature.ts:96, 127).
SymbolRegistrations ==
    { k \in DOMAIN registered :
        /\ registered[k][2] # NoSymbol
        /\ \/ reflections[registered[k][1]].kind = "TypeLiteral"
           \/ reflections[registered[k][1]].cls = "Parameter" }

\* Every outermost call of the current pass has returned.
PassSettled ==
    /\ status = "idle"
    /\ \A i \in DOMAIN history : history[i].pass = pass => i \in Returns

\* C18: within one pass, register is called once for each created reflection
\* (never twice, and once by the time the calls of the pass have returned),
\* and no backing symbol is registered with two different reflections, also
\* when the same inline literal or the same call signature is converted more
\* than once in the pass.
C18_RegisteredOnce ==
    /\ \A id \in Created : Cardinality(RegisteredOf(id)) <= 1
    /\ PassSettled => \A id \in Created : Cardinality(RegisteredOf(id)) = 1
    /\ \A k1, k2 \in SymbolRegistrations :
         registered[k1][2] = registered[k2][2] => registered[k1][1] = registered[k2][1]

\* The running convertType calls that added a symbol to the recursion guard.
GuardFrames ==
    { i \in DOMAIN stack : stack[i].entry = "convertType" /\ stack[i].sym # NoSymbol }

\* No expansion of symbol S is in progress.
NotExpanding(S) == \A i \in GuardFrames : stack[i].sym # S

\* No outermost call of the process has thrown so far.
NothingThrown == Returns = DOMAIN history

\* C19: the guard entry of a symbol lasts for its whole expansion.  While a
\* convertType call that added symbol S to the guard has not returned, S is
\* in the guard, whatever nested conversions have run, those of other types
\* with the same symbol S included; and once no expansion of S is in progress
\* any more, a conversion of a type with symbol S is expanded normally and
\* not answered with the Unknown of a refusal, be it a nested sibling or a
\* later outermost call.
C19_GuardLastsForExpansion ==
    /\ [](\A i \in GuardFrames : stack[i].sym \in seenTypeSymbols)
    /\ [][ ( /\ TypeCallPending
             /\ NothingThrown
             /\ getSymbol(PendingType) # NoSymbol
             /\ NotExpanding(getSymbol(PendingType)) )
           => ~RefusedOnTheSpot ]_vars
    /\ [](\A i \in Returns :
            ( /\ IsTypeCall(history[i].call)
              /\ getSymbol(history[i].call[2][2]) # NoSymbol
              /\ \A j \in 1..(i - 1) : j \in Returns )
            => ~ /\ history[i].ret[1] = "Unknown"
                 /\ history[i].log
                      = << <<"verbose", "Refusing to recurse",
                             typeToString(history[i].call[2][2])>> >>)

\* The running operation is the conversion of a mapped type whose sub-types
\* have been converted and whose result is about to be returned.
MappedReturning ==
    /\ status = "running"
    /\ stack[Len(stack)].todo = <<>>
    /\ stack[Len(stack)].op = "mappedConverter"

\* C20: on both entry points the template stored in a mapped type is the
\* converted template without its undefined union arm, collapsed to the sole
\* remaining arm, exactly when the optionality delta is "+"; with the delta
\* "-" or unchanged the converted template is stored as it is.  The readonly
\* delta and the key-remap sub-type have no influence on the stored template:
\* for the template string | undefined it is the intrinsic string or the
\* whole union according to the question token alone.
C20_TemplateStripped ==
    /\ [][ MappedReturning =>
             LET f == stack[Len(stack)]
                 converted == f.done[1]
                 stored == Delivered[4]
             IN /\ Delivered[1] = "Mapped"
                /\ stored = IF Delta(f.node[5]) = "+" THEN WithoutUndefinedArms(converted)
                            ELSE converted ]_vars
    /\ [](\A i \in Returns :
            IsMappedCall(history[i].call) =>
              history[i].ret[4] =
                IF QuestionTokenOf(history[i].call) \in {"PlusToken", "QuestionToken"}
                THEN Intrinsic("string")
                ELSE <<"Union", <<Intrinsic("string"), Intrinsic("undefined")>> >>)

\* { -readonly [K in string as string]+?: string | undefined } has been
\* converted on both entry points and both results store the intrinsic string.
C20_Witness ==
    /\ program = <<"mapped", "MinusToken", "PlusToken", TRUE>>
    /\ Returns = {1, 2}
    /\ IsTypeCall(history[1].call) /\ IsNodeCall(history[2].call)
    /\ \A i \in 1..2 :
         /\ history[i].ret[4] = Intrinsic("string")
         /\ history[i].ret[5] = "-" /\ history[i].ret[6] = "+"
         /\ history[i].ret[7] # Undefined

\* C21: for every signature built by createSignature and every parameter of
\* the resolved signature, the default-value text recorded on the Parameter
\* is that of the default expression of the parameter's own declaration, and
\* absent when that declaration has none, whether or not the declaration's
\* parameter list lines up with the resolved one and whether or not a
\* declaration node is available.
C21_OwnDefaultValue ==
    [][ (ParameterReturning /\ stack[Len(stack)].op = "parameter")
        => LET f == stack[Len(stack)]
           IN reflections'[f.refl].defaultValue = f.x[2].initializer ]_vars

\* The running operation is a createSignature call whose parts have all been
\* converted and which is about to return.
SignatureReturning ==
    /\ status = "running"
    /\ stack[Len(stack)].todo = <<>>
    /\ stack[Len(stack)].op = "createSignature"

\* The running createSignature call is about to convert its return type.
ReturnTypePending ==
    /\ status = "running"
    /\ stack[Len(stack)].op = "createSignature"
    /\ Len(stack[Len(stack)].todo) = 1

\* C22: the return type of a Signature built by createSignature is a
\* Predicate exactly when the signature has a type predicate: the target is
\* "this" for the kinds This and AssertsThis and the parameter name for the
\* kinds Identifier and AssertsIdentifier, the asserts flag is set exactly
\* for the two asserts kinds, and the asserted type is present exactly when
\* the predicate has a type (the converted type of it).  Otherwise the return
\* type is what convertType gives for the resolved return type, the call
\* being made on the resolved type with the Signature as scope.
C22_PredicateOrReturnType ==
    /\ [][ SignatureReturning =>
             LET f == stack[Len(stack)]
                 sig == f.x[3]
                 stored == reflections'[f.refl].type
             IN IF sig.predicate # NoNode
                THEN /\ stored[1] = "Predicate"
                     /\ stored[2] = (CASE sig.predicate[1] = "This" -> "this"
                                       [] sig.predicate[1] = "AssertsThis" -> "this"
                                       [] sig.predicate[1] = "Identifier" -> sig.predicate[2]
                                       [] sig.predicate[1] = "AssertsIdentifier" -> sig.predicate[2])
                     /\ stored[3] = (sig.predicate[1] \in {"AssertsThis", "AssertsIdentifier"})
                     /\ (stored[4] = Undefined) = (sig.predicate[3] = NoType)
                     /\ sig.predicate[3] = TString => stored[4] = Intrinsic("string")
                ELSE /\ stored[1] # "Predicate"
                     /\ stored = f.done[Len(f.done)]
                     /\ sig.returnType = TVoid => stored = Intrinsic("void")
                     /\ sig.returnType = <<"objT", "Plain">>
                          => /\ stored[1] = "Reflection"
                             /\ reflections'[stored[2]].parent = f.refl ]_vars
    /\ [][ (ReturnTypePending /\ stack[Len(stack)].x[3].predicate = NoNode)
           => LET f == stack[Len(stack)]
              IN /\ Head(f.todo) = T(f.x[3].returnType)
                 /\ Len(stack') = Len(stack) + 1
                      => /\ stack'[Len(stack')].entry = "convertType"
                         /\ stack'[Len(stack')].x = f.x[3].returnType
                         /\ stack'[Len(stack')].scope = f.refl ]_vars

\* A signature with the predicate `asserts this` and a signature returning an
\* inline literal have been built: the first has the Predicate on this with
\* the asserts flag and no type, the second a ReflectionType whose
\* Declaration is owned by the Signature.
C22_Witness ==
    /\ program = <<"predicates", "AssertsThis", FALSE>>
    /\ Returns = {1, 2} /\ pass = 1
    /\ history[1].call[3] = SigPredicate("AssertsThis", FALSE)
    /\ history[2].call[3] = SigReturnsLiteral
    /\ reflections[history[1].ret[2]].type = <<"Predicate", "this", TRUE, Undefined>>
    /\ reflections[history[2].ret[2]].type[1] = "Reflection"
    /\ reflections[reflections[history[2].ret[2]].type[2]].parent = history[2].ret[2]

\* The outermost conversions of a keyword: a node of a kind in the keyword
\* name table, or a resolved type projected onto such a node.
IsKeywordCall(call) ==
    \/ IsNodeCall(call) /\ kindOf(call[2][2]) \in KeywordKinds
    \/ IsTypeCall(call) /\ kindOf(typeToTypeNode(call[2][2])) \in KeywordKinds
KeywordKindOf(call) ==
    IF IsNodeCall(call) THEN kindOf(call[2][2]) ELSE kindOf(typeToTypeNode(call[2][2]))

\* The kinds the actors register.
RegisteredKinds == UNION { Range(actors[i][2]) : i \in DOMAIN actors }

\* C23: every syntax kind with an entry in the keyword name table is handled
\* by the keyword category: through either entry point it converts to the
\* Intrinsic type with the table's name for the kind, never to Unknown.  Once
\* loadConverters has run, the table holds every registered kind, each with
\* the one converter that lists it, and a further loadConverters call leaves
\* the table as it is.
C23_KeywordsHandled ==
    /\ [](\A i \in DOMAIN history :
            IsKeywordCall(history[i].call) =>
              /\ history[i].outcome = "returned"
              /\ history[i].ret[1] = "Intrinsic"
              /\ history[i].ret[2] = keywordNames(KeywordKindOf(history[i].call)))
    /\ [](DOMAIN converters # {} =>
            /\ DOMAIN converters = RegisteredKinds
            /\ \A k \in RegisteredKinds :
                 /\ Cardinality({ i \in DOMAIN actors : k \in Range(actors[i][2]) }) = 1
                 /\ \E i \in DOMAIN actors :
                      k \in Range(actors[i][2]) /\ converters[k] = actors[i][1]
            /\ loadConverters(converters) = converters)
    /\ [][DOMAIN converters # {} => converters' = converters]_vars

\* The outermost conversions of a value for a number option.
IsNumberConversion(call) == call[1] = "convert" /\ call[3].type = "Number"

\* The base-10 integer written at the start of each value, 0 when there is none.
ParsedInteger(value) ==
    CASE value = <<"string", <<" ", "1", "2", "x">>>> -> 12
      [] value = <<"string", <<"-", "3">>>> -> -3
      [] value = <<"string", <<"x">>>> -> 0
      [] value = <<"number", 4>> -> 4
      [] value = <<"null">> -> 0

\* A bound constrains when it is a finite number.
Finite(bound) == bound \in { <<"number", n>> : n \in -20..20 }
Within(n, option) ==
    /\ Finite(option.minValue) => option.minValue[2] <= n
    /\ Finite(option.maxValue) => n <= option.maxValue[2]
BoundsMessage(option) ==
    IF Finite(option.minValue) /\ Finite(option.maxValue)
    THEN <<option.name, "must be between", option.minValue[2], "and", option.maxValue[2]>>
    ELSE IF Finite(option.minValue) THEN <<option.name, "must be >=", option.minValue[2]>>
    ELSE <<option.name, "must be <=", option.maxValue[2]>>

\* C24: converting a value for a number option returns the base-10 integer
\* parsed from the value, 0 when it does not parse, whenever that integer is
\* within the finite bounds of the option (a bound that is missing or not
\* finite does not constrain); otherwise the call throws the bounds error
\* naming the option and returns nothing.  No convert call throws the
\* "Unreachable" error of getBoundsError.
C24_NumberWithinBounds ==
    /\ \A i \in DOMAIN history :
         IsNumberConversion(history[i].call) =>
           LET value == history[i].call[2]
               option == history[i].call[3]
               n == ParsedInteger(value)
           IN IF Within(n, option)
              THEN /\ history[i].outcome = "returned"
                   /\ history[i].ret = <<"number", n>>
              ELSE /\ history[i].outcome = "threw"
                   /\ history[i].ret = Undefined
                   /\ convert(value, option) = [tag |-> "throw", message |-> BoundsMessage(option)]
    /\ \A i \in DOMAIN history :
         history[i].call[1] = "convert"
           => LET o == convert(history[i].call[2], history[i].call[3])
              IN o.tag = "throw" => o.message[1] # "Unreachable"

\* With the bounds 0..10: "x" does not parse and gave 0, the number 4 gave 4,
\* and " 12x" parses to 12 and was refused with the bounds error.
C24_Witness ==
    /\ program = <<"number", <<"number", 0>>, <<"number", 10>>>>
    /\ Len(history) = 3 /\ Returns = {1, 2} /\ pass = 1
    /\ history[1].call[2] = <<"string", <<"x">>>> /\ history[1].ret = <<"number", 0>>
    /\ history[2].call[2] = <<"number", 4>> /\ history[2].ret = <<"number", 4>>
    /\ history[3].call[2] = <<"string", <<" ", "1", "2", "x">>>>
    /\ history[3].outcome = "threw"
    /\ convert(history[3].call[2], history[3].call[3])
         = [tag |-> "throw", message |-> <<"port", "must be between", 0, "and", 10>>]

====
